---- MODULE Spec2Model ----
(***************************************************************************)
(* Data Vault 2.1 metadata exporter (src/src/webview/csvExporter.ts).      *)
(*                                                                         *)
(* The caller holds one list of TableMetadata objects and invokes the five *)
(* static export functions of CSVExporter on it, in any order.  The state  *)
(* is that list (an object the functions receive by reference), what the   *)
(* last call returned, and a frozen copy of the list as it was built.      *)
(*                                                                         *)
(* Strings are TLA+ strings, processed character by character with SubSeq  *)
(* and \o.  An optional field that the code dereferences is None (<<>>)    *)
(* when absent and Some(v) (<<v>>) when present; an optional string that   *)
(* the code only tests for truthiness is "" when absent ("" and undefined  *)
(* are both falsy).                                                        *)
(***************************************************************************)
EXTENDS Naturals, Sequences, FiniteSets, TLC

VARIABLES
    orig,       \* the table list as constructed, never touched (a deep copy)
    tables,     \* the table list object shared by all calls
    pre,        \* the value of tables when the last call started
    last,       \* name of the last export function called, "none" at start
    out,        \* what the last call produced: [fault, data, text]
    repeated,   \* TRUE iff the last call repeated the call before it
    currentPanel,   \* MetadataEditorPanel.currentPanel, with the panel's fields
    files,          \* the text of the CSV files of the output directory, by export name
    notice,         \* the last message shown in the editor window
    exportRequest,  \* the data of the last exportCSV message that was exported
    pending,        \* the promises the panels' handlers await, oldest first
    metadataFile    \* the text of metadata.json in the workspace folder

exportVars == <<orig, tables, pre, last, out, repeated>>
editorVars == <<currentPanel, files, notice, exportRequest, pending, metadataFile>>
vars == <<orig, tables, pre, last, out, repeated,
          currentPanel, files, notice, exportRequest, pending, metadataFile>>

(***************************************************************************)
(* Optional values                                                         *)
(***************************************************************************)
None == <<>>
Some(v) == <<v>>
OrElse(opt, default) == IF opt = None THEN default ELSE opt[1]

(***************************************************************************)
(* JavaScript string primitives                                            *)
(***************************************************************************)
CharAt(s, i) == SubSeq(s, i, i)

\* the grave accent (U+0060), which a string literal holds only when an
\* apostrophe follows it
GraveAccent == CharAt("`'", 1)

\* the characters U+0001 to U+00FF, in code point order
Latin1 ==
    "\t\n\f\r !\"#$%&'()*+,-./0123456789:;<=>?@ABCDEFGHIJKLMNOPQRSTUVWXYZ[\\]^_" \o GraveAccent \o "abcdefghijklmnopqrstuvwxyz{|}~ ¡¢£¤¥¦§¨©ª«¬­®¯°±²³´µ¶·¸¹º»¼½¾¿ÀÁÂÃÄÅÆÇÈÉÊËÌÍÎÏÐÑÒÓÔÕÖ×ØÙÚÛÜÝÞßàáâãäåæçèéêëìíîïðñòóôõö÷øùúûüýþÿ"

\* position of the one-character string c in alphabet a, 0 when absent
AlphaIndex(a, c) ==
    IF \E i \in 1..Len(a) : CharAt(a, i) = c
    THEN CHOOSE i \in 1..Len(a) : CharAt(a, i) = c
    ELSE 0

\* the code point of each of these characters
CodePoint == [c \in {CharAt(Latin1, i) : i \in 1..Len(Latin1)} |-> AlphaIndex(Latin1, c)]

\* the letters that have another case within reach, lower and upper case at
\* equal positions: those up to U+00FF, and the Greek mu (U+03BC, U+039C)
LowerAlpha == "abcdefghijklmnopqrstuvwxyzàáâãäåæçèéêëìíîïðñòóôõöøùúûüýþμ"
UpperAlpha == "ABCDEFGHIJKLMNOPQRSTUVWXYZÀÁÂÃÄÅÆÇÈÉÊËÌÍÎÏÐÑÒÓÔÕÖØÙÚÛÜÝÞΜ"
Digits == "0123456789"

\* the upper case of each lower-case letter and the reverse, as tables
UpperOf == [c \in {CharAt(LowerAlpha, i) : i \in 1..Len(LowerAlpha)} |->
               CharAt(UpperAlpha, AlphaIndex(LowerAlpha, c))]
LowerOf == [c \in {CharAt(UpperAlpha, i) : i \in 1..Len(UpperAlpha)} |->
               CharAt(LowerAlpha, AlphaIndex(UpperAlpha, c))]

\* the capital Y with diaeresis (U+0178), the upper case of U+00FF: a
\* character that no string literal can hold
CapitalYDiaeresis ==
    CHOOSE c \in STRING : Len(c) = 1 /\ c \notin DOMAIN CodePoint /\ c \notin DOMAIN LowerOf
                             /\ c \notin DOMAIN UpperOf

\* one character of toUpperCase: the sharp s becomes SS, the micro sign
\* (U+00B5) the capital mu; the characters of Latin1 that are no letters stay.
\* No value is given for a character beyond U+00FF other than mu.
upperChar(c) ==
    IF c = "ß" THEN "SS"
    ELSE IF c = "µ" THEN "Μ"
    ELSE IF c = "ÿ" THEN CapitalYDiaeresis
    ELSE IF c \in DOMAIN UpperOf THEN UpperOf[c]
    ELSE CASE c \in DOMAIN CodePoint \/ c \in DOMAIN LowerOf -> c

\* one character of toLowerCase
lowerChar(c) ==
    IF c \in DOMAIN LowerOf THEN LowerOf[c]
    ELSE CASE c \in DOMAIN CodePoint \/ c \in DOMAIN UpperOf -> c

RECURSIVE toUpperCase(_)
toUpperCase(s) ==
    IF s = "" THEN "" ELSE upperChar(CharAt(s, 1)) \o toUpperCase(SubSeq(s, 2, Len(s)))

RECURSIVE toLowerCase(_)
toLowerCase(s) ==
    IF s = "" THEN "" ELSE lowerChar(CharAt(s, 1)) \o toLowerCase(SubSeq(s, 2, Len(s)))

startsWith(s, p) == Len(s) >= Len(p) /\ SubSeq(s, 1, Len(p)) = p
endsWith(s, p) == Len(s) >= Len(p) /\ SubSeq(s, Len(s) - Len(p) + 1, Len(s)) = p

\* s.replace(/^p/, '')
stripPrefix(s, p) == IF startsWith(s, p) THEN SubSeq(s, Len(p) + 1, Len(s)) ELSE s
\* s.replace(/p$/, '')
stripSuffix(s, p) == IF endsWith(s, p) THEN SubSeq(s, 1, Len(s) - Len(p)) ELSE s

\* s.replace(/^p/i, '') for a lower-case pattern p
stripPrefixNoCase(s, p) ==
    IF Len(s) >= Len(p) /\ toLowerCase(SubSeq(s, 1, Len(p))) = p
    THEN SubSeq(s, Len(p) + 1, Len(s))
    ELSE s

\* s.split('_')[0]: the text before the first underscore, all of s without one
firstToken(s) ==
    IF \E i \in 1..Len(s) : CharAt(s, i) = "_"
    THEN LET i == CHOOSE i \in 1..Len(s) :
                     /\ CharAt(s, i) = "_"
                     /\ \A j \in 1..(i - 1) : CharAt(s, j) # "_"
         IN SubSeq(s, 1, i - 1)
    ELSE s

\* String(n) for a non-negative integer
RECURSIVE String(_)
String(n) ==
    IF n < 10 THEN CharAt(Digits, n + 1)
    ELSE String(n \div 10) \o CharAt(Digits, (n % 10) + 1)

HexDigits == "0123456789abcdef"

\* one character of JSON.stringify: the quote, the backslash and the control
\* characters below U+0020 are escaped, the latter by their short form (\b,
\* \t, \n, \f, \r) or as \u00 and two hexadecimal digits
jsonEscapeChar(c) ==
    IF c = "\"" THEN "\\\""
    ELSE IF c = "\\" THEN "\\\\"
    ELSE IF c \in DOMAIN CodePoint /\ CodePoint[c] < 32
    THEN LET code == CodePoint[c]
         IN CASE code = 8 -> "\\b"
              [] code = 9 -> "\\t"
              [] code = 10 -> "\\n"
              [] code = 12 -> "\\f"
              [] code = 13 -> "\\r"
              [] OTHER -> "\\u00" \o CharAt(HexDigits, (code \div 16) + 1)
                                   \o CharAt(HexDigits, (code % 16) + 1)
    ELSE c

\* JSON.stringify of one string, without its outer quotes
RECURSIVE jsonEscape(_)
jsonEscape(s) ==
    IF s = "" THEN ""
    ELSE jsonEscapeChar(CharAt(s, 1)) \o jsonEscape(SubSeq(s, 2, Len(s)))

RECURSIVE jsonItems(_)
jsonItems(list) ==
    IF list = <<>> THEN ""
    ELSE "\"" \o jsonEscape(Head(list)) \o "\""
         \o (IF Len(list) > 1 THEN "," ELSE "") \o jsonItems(Tail(list))

\* JSON.stringify of an array of strings
jsonStringify(list) == "[" \o jsonItems(list) \o "]"

(***************************************************************************)
(* Sequence primitives (Array.prototype)                                   *)
(***************************************************************************)
Includes(list, x) == \E i \in 1..Len(list) : list[i] = x

\* the elements of list in first-occurrence order: iteration order of a Set
\* filled by add() in list order
RECURSIVE Dedupe(_)
Dedupe(list) ==
    IF list = <<>> THEN <<>>
    ELSE LET init == Dedupe(SubSeq(list, 1, Len(list) - 1))
             x == list[Len(list)]
         IN IF Includes(init, x) THEN init ELSE Append(init, x)

RECURSIVE Flatten(_)
Flatten(lists) == IF lists = <<>> THEN <<>> ELSE Head(lists) \o Flatten(Tail(lists))

Map1(list, F(_)) == [i \in 1..Len(list) |-> F(list[i])]

\* the cell of a row under the header called name
Field(headers, row, name) ==
    row[CHOOSE i \in 1..Len(headers) : headers[i] = name]

(***************************************************************************)
(* Naming helpers                                                          *)
(***************************************************************************)
\* the first token is used even when it is empty
generateHubNameNoFallback(tableName, businessConcept) ==
    IF businessConcept # ""
    THEN toLowerCase(businessConcept) \o "_h"
    ELSE LET cleaned == IF stripPrefixNoCase(tableName, "stg_") # tableName
                           THEN stripPrefixNoCase(tableName, "stg_")
                        ELSE IF stripPrefixNoCase(tableName, "rv_") # tableName
                           THEN stripPrefixNoCase(tableName, "rv_")
                        ELSE stripPrefixNoCase(tableName, "hub_")
         IN firstToken(cleaned) \o "_h"

generateHubName(tableName, businessConcept) ==
    IF businessConcept # ""
    THEN toLowerCase(businessConcept) \o "_h"
    ELSE LET cleaned == IF stripPrefixNoCase(tableName, "stg_") # tableName
                           THEN stripPrefixNoCase(tableName, "stg_")
                        ELSE IF stripPrefixNoCase(tableName, "rv_") # tableName
                           THEN stripPrefixNoCase(tableName, "rv_")
                        ELSE stripPrefixNoCase(tableName, "hub_")
             first == firstToken(cleaned)
             base == IF first # "" THEN first ELSE cleaned
         IN base \o "_h"

extractSourceSystem(schema, table) ==
    IF toUpperCase(schema) # "" THEN toUpperCase(schema) ELSE "DEFAULT"

extractSourceObject(schema, table) ==
    IF toUpperCase(firstToken(table)) # "" THEN toUpperCase(firstToken(table))
    ELSE "DEFAULT"

extractGroupName(schema) ==
    IF toUpperCase(schema) # "" THEN toUpperCase(schema) ELSE "DEFAULT"

\* `${sourceSystem}_${sourceObject}_${table.table}`
sourceIdentifier(t) ==
    extractSourceSystem(t.schema, t.table) \o "_"
        \o extractSourceObject(t.schema, t.table) \o "_" \o t.table

\* table.columns.find(c => c.column === name): its index, 0 when absent
findColumn(t, name) ==
    IF \E i \in 1..Len(t.columns) : t.columns[i].column = name
    THEN CHOOSE i \in 1..Len(t.columns) :
            /\ t.columns[i].column = name
            /\ \A j \in 1..(i - 1) : t.columns[j].column # name
    ELSE 0

\* table.columns.find(c => c.isRecordSource)?.column || ''
recordSourceCol(t) ==
    IF \E i \in 1..Len(t.columns) : t.columns[i].isRecordSource
    THEN t.columns[CHOOSE i \in 1..Len(t.columns) :
            /\ t.columns[i].isRecordSource
            /\ \A j \in 1..(i - 1) : ~t.columns[j].isRecordSource].column
    ELSE ""

\* table.columns.find(c => c.isLoadDate)?.column || ''
loadDateCol(t) ==
    IF \E i \in 1..Len(t.columns) : t.columns[i].isLoadDate
    THEN t.columns[CHOOSE i \in 1..Len(t.columns) :
            /\ t.columns[i].isLoadDate
            /\ \A j \in 1..(i - 1) : ~t.columns[j].isLoadDate].column
    ELSE ""

\* table.businessKeyGroups, read where the code guards it with a truthiness
\* test: an absent list and an empty one are both iterated zero times
groupsOf(t) == OrElse(t.businessKeyGroups, <<>>)

\* (table as any).hashdiffGroups || []
hashdiffsOf(t) == OrElse(t.hashdiffGroups, <<>>)

(***************************************************************************)
(* Results of a call.  A call returns the text arrayToCSV makes of its     *)
(* row-set (header row first; data keeps the row-set), or ends in a        *)
(* TypeError (fault) when it dereferences a field that is absent.          *)
(***************************************************************************)
\* String.prototype.includes for one character
includesChar(s, ch) == \E i \in 1..Len(s) : CharAt(s, i) = ch

\* replace(/"/g, '""')
RECURSIVE doubleQuotes(_)
doubleQuotes(s) ==
    IF s = "" THEN ""
    ELSE (IF CharAt(s, 1) = "\"" THEN "\"\"" ELSE CharAt(s, 1))
         \o doubleQuotes(SubSeq(s, 2, Len(s)))

\* a cell that is quoted for a comma or a double quote only
csvCellNoNewline(cell) ==
    IF includesChar(cell, ",") \/ includesChar(cell, "\"")
    THEN "\"" \o doubleQuotes(cell) \o "\""
    ELSE cell

\* one cell of arrayToCSV: cell.includes(',') || cell.includes('"') ||
\* cell.includes('\n'), read in one pass over the cell
csvCell(cell) ==
    IF \E i \in 1..Len(cell) : CharAt(cell, i) \in {",", "\"", "\n"}
    THEN "\"" \o doubleQuotes(cell) \o "\""
    ELSE cell

\* Array.prototype.join
RECURSIVE join(_, _)
join(list, sep) ==
    IF list = <<>> THEN ""
    ELSE IF Len(list) = 1 THEN list[1]
    ELSE list[1] \o sep \o join(Tail(list), sep)

csvRow(row) == join([i \in 1..Len(row) |-> csvCell(row[i])], ",")

\* every row ended by a newline, the last one too
arrayToCSVTrailingNewline(data) ==
    join([r \in 1..Len(data) |-> csvRow(data[r]) \o "\n"], "")

arrayToCSV(data) == join([r \in 1..Len(data) |-> csvRow(data[r])], "\n")

Returned(headers, rows) ==
    [fault |-> FALSE,
     data |-> <<headers>> \o rows,
     text |-> arrayToCSV(<<headers>> \o rows),
     message |-> ""]

\* the message of the TypeError raised when a property is read of undefined
TypeErrorReading(property) ==
    "Cannot read properties of undefined (reading '" \o property \o "')"

\* a call that ends in the TypeError of reading the property
Thrown(property) ==
    [fault |-> TRUE, data |-> <<>>, text |-> "", message |-> TypeErrorReading(property)]

(***************************************************************************)
(* exportSourceData                                                        *)
(***************************************************************************)
SourceHeaders ==
    <<"Source_System", "Source_Object", "Source_Schema_Physical_Name",
      "Source_Table_Physical_Name", "Source_Table_Identifier",
      "Record_Source_Column", "Load_Date_Column", "Group_Name",
      "Static_Part_of_Record_Source_Column">>

sourceRow(t) ==
    LET sourceSystem == extractSourceSystem(t.schema, t.table)
        sourceObject == extractSourceObject(t.schema, t.table)
    IN <<sourceSystem, sourceObject, t.schema, t.table,
         sourceSystem \o "_" \o sourceObject \o "_" \o t.table,
         recordSourceCol(t), loadDateCol(t), extractGroupName(t.schema),
         toUpperCase(sourceSystem)>>

\* a source row only for tables that have a business-key group
exportSourceDataAnnotated(ts) ==
    LET annotated(t) == groupsOf(t) # <<>>
    IN Returned(SourceHeaders, Map1(SelectSeq(ts, annotated), sourceRow))

exportSourceData(ts) == Returned(SourceHeaders, Map1(ts, sourceRow))

(***************************************************************************)
(* exportStandardHub                                                       *)
(***************************************************************************)
HubHeaders ==
    <<"Hub_Identifier", "Target_Hub_table_physical_name", "Source_Table_Identifier",
      "Source_Column_Physical_Name", "Business_Key_Physical_Name",
      "Target_Column_Sort_Order", "Target_Primary_Key_Physical_Name",
      "Record_Tracking_Satellite", "Is_Primary_Source", "Group_Name">>

\* variant: a group that lists columns is taken for a hub even when it is
\* marked as a link
isNonLinkOrHasColumns(g) == ~g.isLink \/ g.columns # None
isNonLink(g) == ~g.isLink
nonLinkGroups(t) == SelectSeq(groupsOf(t), isNonLink)

\* the stored-order bug: the sort order of the legacy path used for a group row
hubSortOrderStored(t, columnName, colIndex) ==
    LET i == findColumn(t, columnName)
    IN String(IF i # 0 /\ t.columns[i].order # 0 THEN t.columns[i].order
              ELSE colIndex + 1)

\* String(colIndex + 1), colIndex the 0-based position within the group
hubSortOrder(t, columnName, colIndex) == String(colIndex + 1)

\* variant: of the columns a group lists, only those flagged isBusinessKey
\* in the column list are emitted
hubGroupRowsFlagged(t, group, groupIndex) ==
    LET hubName == generateHubName(t.table, t.businessConcept)
        hubIdentifier == "H_" \o hubName
        hashkey == IF group.hashkeyName # "" THEN group.hashkeyName
                   ELSE "hk_" \o hubName
        Flagged(name) == \E c \in 1..Len(t.columns) :
                            t.columns[c].column = name /\ t.columns[c].isBusinessKey
        cols == SelectSeq(group.columns[1], Flagged)
    IN [k \in 1..Len(cols) |->
          <<hubIdentifier, hubName, sourceIdentifier(t), cols[k], cols[k],
            hubSortOrder(t, cols[k], k - 1), hashkey, "",
            IF groupIndex = 0 /\ k - 1 = 0 THEN "1" ELSE "0",
            extractGroupName(t.schema)>>]

\* variant: the hub is named after the business concept of the group
hubGroupRowsOwnConcept(t, group, groupIndex) ==
    LET hubName == generateHubName(t.table, group.businessConcept)
        hubIdentifier == "H_" \o hubName
        hashkey == IF group.hashkeyName # "" THEN group.hashkeyName
                   ELSE "hk_" \o hubName
        cols == group.columns[1]
    IN [k \in 1..Len(cols) |->
          <<hubIdentifier, hubName, sourceIdentifier(t), cols[k], cols[k],
            hubSortOrder(t, cols[k], k - 1), hashkey, "",
            IF groupIndex = 0 /\ k - 1 = 0 THEN "1" ELSE "0",
            extractGroupName(t.schema)>>]

\* the rows of one non-link group; groupIndex is its 0-based position among
\* the table's non-link groups
hubGroupRows(t, group, groupIndex) ==
    LET hubName == generateHubName(t.table, t.businessConcept)
        hubIdentifier == "H_" \o hubName
        hashkey == IF group.hashkeyName # "" THEN group.hashkeyName
                   ELSE "hk_" \o hubName
        cols == group.columns[1]
    IN [k \in 1..Len(cols) |->
          <<hubIdentifier, hubName, sourceIdentifier(t), cols[k], cols[k],
            hubSortOrder(t, cols[k], k - 1), hashkey, "",
            IF groupIndex = 0 /\ k - 1 = 0 THEN "1" ELSE "0",
            extractGroupName(t.schema)>>]

isBusinessKeyColumn(c) == c.isBusinessKey

\* the fallback for tables without business key groups
hubLegacyRows(t) ==
    LET businessKeys == SelectSeq(t.columns, isBusinessKeyColumn)
    IN IF Len(businessKeys) = 0 THEN <<>>
       ELSE LET hubName == generateHubName(t.table, t.businessConcept)
                hubIdentifier == "H_" \o hubName
                hashkey == IF businessKeys[1].hashkeyName # ""
                           THEN businessKeys[1].hashkeyName
                           ELSE "hk_" \o hubName
            IN [k \in 1..Len(businessKeys) |->
                  <<hubIdentifier, hubName, sourceIdentifier(t),
                    businessKeys[k].column, businessKeys[k].column,
                    String(IF businessKeys[k].order # 0 THEN businessKeys[k].order
                           ELSE (k - 1) + 1),
                    hashkey, "",
                    IF k - 1 = 0 THEN "1" ELSE "0",
                    extractGroupName(t.schema)>>]

\* variant: an empty list of groups is taken for a list of groups
hubTableRowsWhenPresent(t) ==
    IF t.businessKeyGroups # None
    THEN LET nl == nonLinkGroups(t)
         IN Flatten([g \in 1..Len(nl) |-> hubGroupRows(t, nl[g], g - 1)])
    ELSE hubLegacyRows(t)

\* variant: the fallback is taken whenever the table has no hub group
hubTableRowsFallbackWithoutHub(t) ==
    IF Len(nonLinkGroups(t)) > 0
    THEN LET nl == nonLinkGroups(t)
         IN Flatten([g \in 1..Len(nl) |-> hubGroupRows(t, nl[g], g - 1)])
    ELSE hubLegacyRows(t)

hubTableRows(t) ==
    IF Len(groupsOf(t)) > 0
    THEN LET nl == nonLinkGroups(t)
         IN Flatten([g \in 1..Len(nl) |-> hubGroupRows(t, nl[g], g - 1)])
    ELSE hubLegacyRows(t)

\* group.columns.forEach on a non-link group that has no columns list
hubTableThrows(t) ==
    \E g \in 1..Len(groupsOf(t)) :
        ~groupsOf(t)[g].isLink /\ groupsOf(t)[g].columns = None

exportStandardHub(ts) ==
    IF \E i \in 1..Len(ts) : hubTableThrows(ts[i]) THEN Thrown("forEach")
    ELSE Returned(HubHeaders, Flatten(Map1(ts, hubTableRows)))

(***************************************************************************)
(* exportStandardSatellite                                                 *)
(***************************************************************************)
SatelliteHeaders ==
    <<"Satellite_Identifier", "Target_Satellite_Table_Physical_Name",
      "Source_Table_Identifier", "Source_Column_Physical_Name",
      "Parent_Identifier", "Parent_Primary_Key_Physical_Name",
      "Target_Column_Physical_Name", "Target_Column_Sort_Order", "Group_Name">>

\* variant: only the columns of hub hashkeys
businessKeyColumnsOfHubs(t) ==
    Flatten([g \in 1..Len(nonLinkGroups(t)) |-> nonLinkGroups(t)[g].columns[1]])

\* the content of the businessKeyColumns Set: every column of every group
businessKeyColumns(t) ==
    Flatten([g \in 1..Len(groupsOf(t)) |-> groupsOf(t)[g].columns[1]])

\* variant: link hashkeys of the concept are taken as well
conceptHashkeysAnyGroup(t, hd) ==
    LET Match(g) == g.businessConcept = hd.concept /\ g.hashkeyName # ""
        m == SelectSeq(groupsOf(t), Match)
    IN [i \in 1..Len(m) |-> m[i].hashkeyName]

\* the hashkey names of the groups the auto-selection loop assigns, in order
conceptHashkeys(t, hd) ==
    LET Match(g) == ~g.isLink /\ g.businessConcept = hd.concept /\ g.hashkeyName # ""
        m == SelectSeq(groupsOf(t), Match)
    IN [i \in 1..Len(m) |-> m[i].hashkeyName]

\* variant: the first group of the concept is taken, as find() would
resolveHashkeyFirst(t, hd) ==
    IF hd.hashkey # "" THEN hd.hashkey
    ELSE IF conceptHashkeys(t, hd) = <<>> THEN ""
    ELSE conceptHashkeys(t, hd)[1]

\* hashdiff.hashkey as read once the auto-selection has run: the loop over the
\* groups has no break, so the last group of the concept is the one kept
resolveHashkey(t, hd) ==
    IF hd.hashkey # "" THEN hd.hashkey
    ELSE IF conceptHashkeys(t, hd) = <<>> THEN ""
    ELSE conceptHashkeys(t, hd)[Len(conceptHashkeys(t, hd))]

\* variant: the defaulted mode is written into the hashdiff object as well
hashdiffAfterNormalised(t, hd) ==
    IF hd.concept # "" /\ hd.hashkey = "" /\ conceptHashkeys(t, hd) # <<>>
    THEN [hd EXCEPT !.hashkey = conceptHashkeys(t, hd)[Len(conceptHashkeys(t, hd))],
                    !.mode = IF hd.mode # "" THEN hd.mode ELSE "select_all"]
    ELSE hd

\* the hashdiff object as the call leaves it: hashdiff.hashkey = group.hashkeyName
\* is executed for every matching group when the hashkey was unset
hashdiffAfter(t, hd) ==
    IF hd.concept # "" /\ hd.hashkey = "" /\ conceptHashkeys(t, hd) # <<>>
    THEN [hd EXCEPT !.hashkey = conceptHashkeys(t, hd)[Len(conceptHashkeys(t, hd))]]
    ELSE hd

\* variant: the exclusion list is not consulted
isSelectAllMemberNoExclusion(t, excludedColumns, col) ==
    /\ ~Includes(businessKeyColumns(t), col.column)
    /\ col.column # recordSourceCol(t)
    /\ col.column # loadDateCol(t)

\* the test of the select_all branch
isSelectAllMember(t, excludedColumns, col) ==
    /\ ~Includes(excludedColumns, col.column)
    /\ ~Includes(businessKeyColumns(t), col.column)
    /\ col.column # recordSourceCol(t)
    /\ col.column # loadDateCol(t)

\* variant: the select_all test is applied to the listed columns as well
hashdiffColumnsFiltered(t, hd) ==
    LET mode == IF hd.mode # "" THEN hd.mode ELSE "select_all"
        excludedColumns == OrElse(hd.excludedColumns, <<>>)
        includedColumns == OrElse(hd.includedColumns, <<>>)
        Member(col) == isSelectAllMember(t, excludedColumns, col)
        kept == SelectSeq(t.columns, Member)
        Listed(name) == \E i \in 1..Len(kept) : kept[i].column = name
    IN IF mode = "select_all"
       THEN Dedupe([i \in 1..Len(kept) |-> kept[i].column])
       ELSE Dedupe(SelectSeq(includedColumns, Listed))

\* the hashdiffColumns Set in iteration (insertion) order
hashdiffColumns(t, hd) ==
    LET mode == IF hd.mode # "" THEN hd.mode ELSE "select_all"
        excludedColumns == OrElse(hd.excludedColumns, <<>>)
        includedColumns == OrElse(hd.includedColumns, <<>>)
        Member(col) == isSelectAllMember(t, excludedColumns, col)
        kept == SelectSeq(t.columns, Member)
    IN IF mode = "select_all"
       THEN Dedupe([i \in 1..Len(kept) |-> kept[i].column])
       ELSE Dedupe(includedColumns)

\* variant: a hashdiff group without concept is processed like any other
satelliteHashdiffRowsAnyConcept(t, hd) ==
    IF resolveHashkey(t, hd) = "" THEN <<>>
    ELSE IF Len(hashdiffColumns(t, hd)) = 0 THEN <<>>
    ELSE LET hashkey == resolveHashkey(t, hd)
             cols == hashdiffColumns(t, hd)
             hubName == stripSuffix(stripPrefix(hashkey, "hk_"), "_h")
             satelliteName == stripSuffix(stripPrefix(hd.name, "hd_"), "_sat")
             satelliteIdentifier == "S_" \o satelliteName
             parentIdentifier == "H_" \o hubName
         IN Flatten([k \in 1..Len(cols) |->
               LET i == findColumn(t, cols[k])
               IN IF i = 0 THEN <<>>
                  ELSE << <<satelliteIdentifier, satelliteName, sourceIdentifier(t),
                            t.columns[i].column, parentIdentifier, hashkey,
                            t.columns[i].column,
                            String(IF t.columns[i].order # 0 THEN t.columns[i].order
                                   ELSE (k - 1) + 1),
                            extractGroupName(t.schema)>> >>])

\* the rows one hashdiff group contributes
satelliteHashdiffRows(t, hd) ==
    IF hd.concept = "" THEN <<>>
    ELSE IF resolveHashkey(t, hd) = "" THEN <<>>
    ELSE IF Len(hashdiffColumns(t, hd)) = 0 THEN <<>>
    ELSE LET hashkey == resolveHashkey(t, hd)
             cols == hashdiffColumns(t, hd)
             hubName == stripSuffix(stripPrefix(hashkey, "hk_"), "_h")
             satelliteName == stripSuffix(stripPrefix(hd.name, "hd_"), "_sat")
             satelliteIdentifier == "S_" \o satelliteName
             parentIdentifier == "H_" \o hubName
         IN Flatten([k \in 1..Len(cols) |->
               LET i == findColumn(t, cols[k])
               IN IF i = 0 THEN <<>>
                  ELSE << <<satelliteIdentifier, satelliteName, sourceIdentifier(t),
                            t.columns[i].column, parentIdentifier, hashkey,
                            t.columns[i].column,
                            String(IF t.columns[i].order # 0 THEN t.columns[i].order
                                   ELSE (k - 1) + 1),
                            extractGroupName(t.schema)>> >>])

satelliteTableRows(t) ==
    Flatten([d \in 1..Len(hashdiffsOf(t)) |->
                satelliteHashdiffRows(t, hashdiffsOf(t)[d])])

\* the table object after its hashdiff groups were processed
satelliteTableAfter(t) ==
    IF Len(hashdiffsOf(t)) = 0 THEN t
    ELSE [t EXCEPT !.hashdiffGroups =
            Some([d \in 1..Len(hashdiffsOf(t)) |-> hashdiffAfter(t, hashdiffsOf(t)[d])])]

\* group.columns.forEach on a group without a columns list, reached only by a
\* table that has hashdiff groups
satelliteTableThrows(t) ==
    /\ Len(hashdiffsOf(t)) > 0
    /\ \E g \in 1..Len(groupsOf(t)) : groupsOf(t)[g].columns = None

\* index of the first table on which the call throws, 0 when it returns
satelliteThrowsAt(ts) ==
    IF \E i \in 1..Len(ts) : satelliteTableThrows(ts[i])
    THEN CHOOSE i \in 1..Len(ts) :
            /\ satelliteTableThrows(ts[i])
            /\ \A j \in 1..(i - 1) : ~satelliteTableThrows(ts[j])
    ELSE 0

\* the table list after the call: the tables visited before a throw keep the
\* hashkeys written into their hashdiff groups
satelliteTablesAfter(ts) ==
    LET stop == satelliteThrowsAt(ts)
    IN [i \in 1..Len(ts) |->
          IF stop = 0 \/ i < stop THEN satelliteTableAfter(ts[i]) ELSE ts[i]]

exportStandardSatellite(ts) ==
    IF satelliteThrowsAt(ts) # 0 THEN Thrown("forEach")
    ELSE Returned(SatelliteHeaders, Flatten(Map1(ts, satelliteTableRows)))

(***************************************************************************)
(* exportStandardLink                                                      *)
(***************************************************************************)
LinkHeaders ==
    <<"Link_Identifier", "Target_link_table_physical_name", "Source_Table_Identifier",
      "Source_Column_Physical_Name", "Hub_Identifier", "Hub_primary_key_physical_name",
      "Target_column_physical_name", "Target_Primary_Key_Physical_Name", "Group_Name">>

isLinkGroup(g) == g.isLink = TRUE
linkGroups(t) == SelectSeq(groupsOf(t), isLinkGroup)

\* t.businessKeyGroups.find(g => !g.isLink && g.hashkeyName === refHashkey):
\* index of the first such group of the table, 0 when there is none
findHashkeyGroup(t, refHashkey) ==
    LET gs == groupsOf(t)
        Hit(i) == ~gs[i].isLink /\ gs[i].hashkeyName = refHashkey
    IN IF \E i \in 1..Len(gs) : Hit(i)
       THEN CHOOSE i \in 1..Len(gs) : Hit(i) /\ \A j \in 1..(i - 1) : ~Hit(j)
       ELSE 0

\* the indices of the tables that hold a group for refHashkey, ascending
RECURSIVE matchingTables(_, _)
matchingTables(ts, refHashkey) ==
    IF ts = <<>> THEN <<>>
    ELSE LET init == matchingTables(SubSeq(ts, 1, Len(ts) - 1), refHashkey)
         IN IF findHashkeyGroup(ts[Len(ts)], refHashkey) # 0
            THEN Append(init, Len(ts)) ELSE init

\* the table whose match is in hubIdentifier / hashkeyColumns when the scan
\* over all tables ends: every match overwrites the one before, 0 when none
referencedTable(ts, refHashkey) ==
    LET m == matchingTables(ts, refHashkey)
    IN IF m = <<>> THEN 0 ELSE m[Len(m)]

\* linkGroup.hashkeyName || `lk_${table.table}_${linkIndex + 1}`
linkNameOf(t, linkGroup, linkIndex) ==
    IF linkGroup.hashkeyName # "" THEN linkGroup.hashkeyName
    ELSE "lk_" \o t.table \o "_" \o String(linkIndex + 1)

\* variant: one row per reference without column detail, as in the earlier
\* release of the exporter
linkReferenceRowsBlank(ts, t, linkGroup, linkIndex, refHashkey) ==
    LET linkName == linkNameOf(t, linkGroup, linkIndex)
        owner == referencedTable(ts, refHashkey)
    IN IF owner = 0 THEN <<>>
       ELSE << <<"L_" \o linkName, linkName, sourceIdentifier(t), "",
                 "H_" \o generateHubName(ts[owner].table, ts[owner].businessConcept),
                 refHashkey, "",
                 IF linkGroup.hashkeyName # "" THEN linkGroup.hashkeyName ELSE linkName,
                 extractGroupName(t.schema)>> >>

\* variant: a reference whose hub hashkey has no columns is skipped
linkReferenceRowsSkipEmpty(ts, t, linkGroup, linkIndex, refHashkey) ==
    LET linkName == linkNameOf(t, linkGroup, linkIndex)
        owner == referencedTable(ts, refHashkey)
        hashkeyColumns ==
            IF owner = 0 THEN <<>>
            ELSE OrElse(groupsOf(ts[owner])[findHashkeyGroup(ts[owner], refHashkey)].columns,
                        <<>>)
    IN [k \in 1..Len(hashkeyColumns) |->
           <<"L_" \o linkName, linkName, sourceIdentifier(t), hashkeyColumns[k],
             "H_" \o generateHubName(ts[owner].table, ts[owner].businessConcept),
             refHashkey, hashkeyColumns[k],
             IF linkGroup.hashkeyName # "" THEN linkGroup.hashkeyName ELSE linkName,
             extractGroupName(t.schema)>>]

\* the rows of one referenced hashkey of one link group of table t; linkIndex
\* is the group's 0-based position among the table's link groups
linkReferenceRows(ts, t, linkGroup, linkIndex, refHashkey) ==
    LET linkName == linkNameOf(t, linkGroup, linkIndex)
        linkIdentifier == "L_" \o linkName
        owner == referencedTable(ts, refHashkey)
        hubName == IF owner = 0 THEN ""
                   ELSE generateHubName(ts[owner].table, ts[owner].businessConcept)
        hubIdentifier == IF owner = 0 THEN "" ELSE "H_" \o hubName
        hashkeyColumns ==
            IF owner = 0 THEN <<>>
            ELSE OrElse(groupsOf(ts[owner])[findHashkeyGroup(ts[owner], refHashkey)].columns,
                        <<>>)
        key == IF linkGroup.hashkeyName # "" THEN linkGroup.hashkeyName ELSE linkName
    IN IF hubIdentifier # "" /\ Len(hashkeyColumns) > 0
       THEN [k \in 1..Len(hashkeyColumns) |->
               <<linkIdentifier, linkName, sourceIdentifier(t), hashkeyColumns[k],
                 hubIdentifier, refHashkey, hashkeyColumns[k], key,
                 extractGroupName(t.schema)>>]
       ELSE IF hubIdentifier # ""
       THEN << <<linkIdentifier, linkName, sourceIdentifier(t), "",
                 hubIdentifier, refHashkey, "", key, extractGroupName(t.schema)>> >>
       ELSE <<>>

linkGroupRows(ts, t, linkGroup, linkIndex) ==
    LET refs == OrElse(linkGroup.referencedHashkeys, <<>>)
    IN Flatten([r \in 1..Len(refs) |->
                   linkReferenceRows(ts, t, linkGroup, linkIndex, refs[r])])

linkTableRows(ts, t) ==
    LET lg == linkGroups(t)
    IN Flatten([l \in 1..Len(lg) |-> linkGroupRows(ts, t, lg[l], l - 1)])

exportStandardLink(ts) ==
    Returned(LinkHeaders, Flatten([i \in 1..Len(ts) |-> linkTableRows(ts, ts[i])]))

(***************************************************************************)
(* exportInformationSchemaFormat                                           *)
(***************************************************************************)
InformationSchemaHeaders ==
    <<"table_catalog", "table_schema", "table_name", "column_name",
      "ordinal_position", "data_type", "is_nullable", "business_concept",
      "hub_hashkey", "link_hashkey", "hashdiff_names", "is_record_source",
      "is_load_date", "create_satellite">>

\* hashkey name of the last group of the wanted kind that lists the column
columnHashkey(t, columnName, wantLink) ==
    LET Holds(g) == g.isLink = wantLink /\ Includes(g.columns[1], columnName)
        m == SelectSeq(groupsOf(t), Holds)
    IN IF m = <<>> THEN "" ELSE m[Len(m)].hashkeyName

\* the membership test the denormalized export applies to one hashdiff group
columnInHashdiff(diff, columnName) ==
    IF diff.mode = "select_all"
    THEN ~Includes(diff.excludedColumns[1], columnName)
    ELSE Includes(diff.includedColumns[1], columnName)

\* the columnHashdiffs array of one column
columnHashdiffs(t, columnName) ==
    LET In(diff) == columnInHashdiff(diff, columnName)
        m == SelectSeq(hashdiffsOf(t), In)
    IN [i \in 1..Len(m) |-> m[i].name]

informationSchemaRow(t, col) ==
    <<"default", t.schema, t.table, col.column, String(col.order),
      col.data_type,
      IF col.is_nullable # "" THEN col.is_nullable ELSE "YES",
      t.businessConcept,
      columnHashkey(t, col.column, FALSE),
      columnHashkey(t, col.column, TRUE),
      IF Len(columnHashdiffs(t, col.column)) > 0
      THEN jsonStringify(columnHashdiffs(t, col.column)) ELSE "",
      IF col.isRecordSource THEN "true" ELSE "false",
      IF col.isLoadDate THEN "true" ELSE "false",
      IF t.createSatellite THEN "true" ELSE "false">>

informationSchemaTableRows(t) ==
    [c \in 1..Len(t.columns) |-> informationSchemaRow(t, t.columns[c])]

\* group.columns.includes on a group without a columns list, or
\* diff.excludedColumns.includes / diff.includedColumns.includes on a hashdiff
\* group without the list its mode reads; reached once per column
informationSchemaTableThrows(t) ==
    /\ Len(t.columns) > 0
    /\ \/ \E g \in 1..Len(groupsOf(t)) : groupsOf(t)[g].columns = None
       \/ \E d \in 1..Len(hashdiffsOf(t)) :
             LET diff == hashdiffsOf(t)[d]
             IN IF diff.mode = "select_all" THEN diff.excludedColumns = None
                ELSE diff.includedColumns = None

exportInformationSchemaFormat(ts) ==
    IF \E i \in 1..Len(ts) : informationSchemaTableThrows(ts[i]) THEN Thrown("includes")
    ELSE Returned(InformationSchemaHeaders,
                  Flatten(Map1(ts, informationSchemaTableRows)))

(***************************************************************************)
(* Inputs.  The shapes are those of the interfaces at the top of           *)
(* csvExporter.ts and of the README's "Data Structure" section.            *)
(***************************************************************************)
Column(name, order, isBusinessKey, isRecordSource, isLoadDate) ==
    [column |-> name, order |-> order, isBusinessKey |-> isBusinessKey,
     businessKeyGroup |-> "", hashkeyName |-> "", isHashkey |-> FALSE,
     isRecordSource |-> isRecordSource, isLoadDate |-> isLoadDate,
     data_type |-> "VARCHAR", is_nullable |-> ""]

\* a hub hashkey group
HubGroup(hashkeyName, businessConcept, columns) ==
    [hashkeyName |-> hashkeyName, businessConcept |-> businessConcept,
     columns |-> Some(columns), isLink |-> FALSE, referencedHashkeys |-> None]

\* a link hashkey as the README documents it: no columns list
LinkGroup(hashkeyName, referencedHashkeys) ==
    [hashkeyName |-> hashkeyName, businessConcept |-> "",
     columns |-> None, isLink |-> TRUE,
     referencedHashkeys |-> Some(referencedHashkeys)]

\* a link hashkey that satisfies the BusinessKeyGroup interface (columns set)
LinkGroupWithColumns(hashkeyName, columns, referencedHashkeys) ==
    [hashkeyName |-> hashkeyName, businessConcept |-> "",
     columns |-> Some(columns), isLink |-> TRUE,
     referencedHashkeys |-> Some(referencedHashkeys)]

\* a hashdiff group as the README documents it
Hashdiff(name, concept, hashkey, mode, excludedColumns, includedColumns) ==
    [name |-> name, concept |-> concept, hashkey |-> hashkey, mode |-> mode,
     excludedColumns |-> Some(excludedColumns),
     includedColumns |-> Some(includedColumns)]

\* a hashdiff group that leaves mode and both lists out
BareHashdiff(name, concept, hashkey) ==
    [name |-> name, concept |-> concept, hashkey |-> hashkey, mode |-> "",
     excludedColumns |-> None, includedColumns |-> None]

Table(schema, table, businessConcept, businessKeyGroups, hashdiffGroups, columns) ==
    [schema |-> schema, table |-> table, businessConcept |-> businessConcept,
     businessKeyGroups |-> businessKeyGroups, hashdiffGroups |-> hashdiffGroups,
     createSatellite |-> hashdiffGroups # None, columns |-> columns]

\* two hub hashkeys of one concept, group order against the column order, a
\* select_all satellite whose hashkey is left to the auto-selection
CustomerTable ==
    Table("crm", "stg_customer_master", "",
          Some(<<HubGroup("hk_customer_h", "Customer", <<"code", "id">>),
                 HubGroup("hk_customer_alt_h", "Customer", <<"id">>)>>),
          Some(<<Hashdiff("hd_customer_sat", "Customer", "", "select_all",
                          <<"name", "rsrc", "code">>, <<>>)>>),
          <<Column("id", 1, FALSE, FALSE, FALSE),
            Column("code", 2, FALSE, FALSE, FALSE),
            Column("name", 3, FALSE, FALSE, FALSE),
            Column("city", 4, FALSE, FALSE, FALSE),
            Column("rsrc", 5, FALSE, TRUE, FALSE),
            Column("ldts", 6, FALSE, FALSE, TRUE)>>)

\* a second owner of hk_customer_h, a link referencing it, an explicit
\* satellite (listing a business key, an excluded column, the record-source
\* column, a column twice and one the table lacks) and one without concept;
\* column orders unset
OrderTable ==
    Table("crm", "rv_order", "Order",
          Some(<<HubGroup("hk_order_h", "Order", <<"id">>),
                 HubGroup("hk_customer_h", "Customer", <<"code">>),
                 LinkGroupWithColumns("lk_order_customer", <<>>,
                                      <<"hk_order_h", "hk_customer_h">>)>>),
          Some(<<Hashdiff("hd_order_sat", "Order", "hk_order_h", "select_explicit",
                          <<"city">>, <<"city", "id", "ghost", "city", "rsrc">>),
                 Hashdiff("hd_orphan_sat", "", "hk_order_h", "select_all",
                          <<>>, <<>>)>>),
          <<Column("name", 0, TRUE, FALSE, FALSE),
            Column("id", 0, TRUE, FALSE, FALSE),
            Column("code", 0, FALSE, FALSE, FALSE),
            Column("city", 0, FALSE, FALSE, FALSE),
            Column("rsrc", 0, FALSE, TRUE, FALSE)>>)

\* the README's link hashkey next to a satellite
CustomerOrderTable ==
    Table("crm", "customer_order", "",
          Some(<<LinkGroup("Customer_Order",
                           <<"hk_customer_h", "hk_order_h", "hk_missing_h">>)>>),
          Some(<<Hashdiff("hd_customer_order_sat", "Customer", "hk_customer_h",
                          "select_all", <<>>, <<>>)>>),
          <<Column("id", 1, FALSE, FALSE, FALSE),
            Column("qty", 2, FALSE, FALSE, FALSE)>>)

\* a hub hashkey created before any column was assigned to it, followed by a
\* link and a second hub hashkey; a satellite that leaves the mode out
ProductTable ==
    Table("pim", "hub_product", "",
          Some(<<HubGroup("hk_product_h", "Product", <<>>),
                 LinkGroupWithColumns("", <<"sku">>,
                                      <<"hk_part_h", "hk_missing_h", "hk_product_h">>),
                 HubGroup("hk_part_h", "Product", <<"sku", "part_no">>)>>),
          Some(<<Hashdiff("hd_product_sat", "Product", "", "",
                          <<"note">>, <<"sku">>)>>),
          <<Column("part_no", 0, TRUE, FALSE, FALSE),
            Column("sku", 2, FALSE, FALSE, FALSE),
            Column("note", 0, FALSE, FALSE, FALSE),
            Column("weight", 0, FALSE, FALSE, FALSE),
            Column("ldts", 0, FALSE, FALSE, TRUE)>>)

\* un-migrated input: per-column flags only
LegacyTable ==
    Table("", "STG_item_list", "", None, None,
          <<Column("descr", 0, FALSE, FALSE, FALSE),
            [Column("item_no", 7, TRUE, FALSE, FALSE) EXCEPT !.hashkeyName = "hk_item"],
            Column("variant", 0, TRUE, FALSE, FALSE),
            Column("src", 0, FALSE, TRUE, FALSE)>>)

\* an empty list of hashkeys and two flagged columns, the first without a
\* stored order and the second stored at 1
CountryTable ==
    Table("raw", "ref_country", "", Some(<<>>), None,
          <<Column("label", 0, FALSE, FALSE, FALSE),
            Column("code", 0, TRUE, FALSE, FALSE),
            Column("iso", 1, TRUE, FALSE, FALSE)>>)

\* nothing annotated
PlainTable ==
    Table("ops", "notes", "", Some(<<>>), Some(<<>>),
          <<Column("id", 1, FALSE, FALSE, FALSE),
            Column("He said \"hi\", ok", 2, FALSE, FALSE, FALSE),
            Column("two\nlines", 3, FALSE, FALSE, FALSE),
            Column("a,b", 4, FALSE, FALSE, FALSE)>>)

\* only a link hashkey, of the concept of a satellite whose hashkey is left to
\* the auto-selection, while columns still carry the legacy flag; two columns
\* flagged as record source and two as load date
ShipmentTable ==
    Table("ops", "shipment", "Shipment",
          Some(<<[LinkGroupWithColumns("lk_shipment", <<>>, <<"hk_order_h">>)
                     EXCEPT !.businessConcept = "Customer"]>>),
          Some(<<Hashdiff("hd_shipment_sat", "Customer", "", "select_all",
                          <<>>, <<>>)>>),
          <<Column("id", 1, TRUE, FALSE, FALSE),
            Column("order_id", 2, FALSE, FALSE, FALSE),
            Column("loaded", 3, FALSE, FALSE, TRUE),
            Column("src_a", 4, FALSE, TRUE, FALSE),
            Column("src_b", 5, FALSE, TRUE, FALSE),
            Column("loaded_again", 6, FALSE, FALSE, TRUE)>>)

\* a hub hashkey without a name that lists a column the table no longer has
\* and one column twice, a link hashkey with a column of its own that refers
\* to the hub hashkey by its (empty) name; a satellite
\* given by name, concept and hashkey alone and one that excludes every
\* column left to it
InvoiceTable ==
    Table("fin", "invoice", "Invoice",
          Some(<<HubGroup("", "Invoice", <<"no", "branch", "no">>),
                 LinkGroupWithColumns("lk_invoice", <<"amount">>, <<"">>)>>),
          Some(<<BareHashdiff("hd_invoice_sat", "Invoice", "hk_invoice_h"),
                 Hashdiff("hd_invoice_none_sat", "Invoice", "hk_invoice_h",
                          "select_all", <<"paid">>, <<>>)>>),
          <<Column("no", 1, FALSE, FALSE, FALSE),
            Column("amount", 2, FALSE, FALSE, FALSE),
            Column("paid", 3, FALSE, FALSE, FALSE)>>)

TableCatalogue ==
    {CustomerTable, OrderTable, CustomerOrderTable, ProductTable, LegacyTable,
     PlainTable, ShipmentTable, InvoiceTable, CountryTable}

\* longest table list handed to the exporter
MaxTables == 2

TableLists == UNION {[1..n -> TableCatalogue] : n \in 0..MaxTables}

(***************************************************************************)
(* The caller: any export function, any number of times, in any order      *)
(***************************************************************************)
NothingYet == [fault |-> FALSE, data |-> <<>>, text |-> "", message |-> ""]

\* the names under which _exportCSV writes its files
ExportNames == {"source_data", "standard_hub", "standard_satellite", "standard_link"}

\* no editor panel was opened and nothing was written
EditorClosed ==
    /\ currentPanel = None
    /\ files = [n \in ExportNames |-> None]
    /\ notice = ""
    /\ exportRequest = None
    /\ pending = <<>>
    /\ metadataFile = None

Init ==
    /\ orig \in TableLists
    /\ tables = orig
    /\ pre = orig
    /\ last = "none"
    /\ out = NothingYet
    /\ repeated = FALSE
    /\ EditorClosed

\* bookkeeping common to every call
Called(name, result) ==
    /\ pre' = tables
    /\ last' = name
    /\ out' = result
    /\ repeated' = (last = name)
    /\ UNCHANGED orig
    /\ UNCHANGED editorVars

ExportSourceData ==
    /\ Called("exportSourceData", exportSourceData(tables))
    /\ UNCHANGED tables

ExportStandardHub ==
    /\ Called("exportStandardHub", exportStandardHub(tables))
    /\ UNCHANGED tables

ExportStandardSatellite ==
    /\ Called("exportStandardSatellite", exportStandardSatellite(tables))
    /\ tables' = satelliteTablesAfter(tables)

ExportStandardLink ==
    /\ Called("exportStandardLink", exportStandardLink(tables))
    /\ UNCHANGED tables

ExportInformationSchemaFormat ==
    /\ Called("exportInformationSchemaFormat", exportInformationSchemaFormat(tables))
    /\ UNCHANGED tables

Next ==
    \/ ExportSourceData
    \/ ExportStandardHub
    \/ ExportStandardSatellite
    \/ ExportStandardLink
    \/ ExportInformationSchemaFormat

Spec == Init /\ [][Next]_vars

(***************************************************************************)
(* The helpers on their own: arrayToCSV on small rectangular row-sets      *)
(* (HelperSpec) and generateHubName on table names and business concepts   *)
(* (HubSpec).  pre holds the arguments of the call, out.text the string    *)
(* returned.                                                               *)
(***************************************************************************)
CsvCells == {"", "a", "a,b", "x\"", "\"\"", "two\nlines", "He said \"hi\", ok"}

\* most cells in a row-set handed to arrayToCSV
MaxCsvCells == 4

CsvShapes ==
    {p \in (0..MaxCsvCells) \X (1..MaxCsvCells) : p[1] * p[2] <= MaxCsvCells}

CsvRowSets == UNION {[1..p[1] -> [1..p[2] -> CsvCells]] : p \in CsvShapes}

HubTableNames ==
    {"stg_product_master", "anything", "STG_Item_list", "rv_order", "Hub_hub_x",
     "product", "stg__orders", "_tmp", "stg_", "", "xstg_a", "rv"}

HubConcepts == {"", "Customer", "ORDER", "Sales_Order", "Café", "STRASSE_Ü"}

HelperInit ==
    /\ orig = <<>>
    /\ tables = <<>>
    /\ \E data \in CsvRowSets : pre = [fn |-> "arrayToCSV", data |-> data]
    /\ last = "none"
    /\ out = NothingYet
    /\ repeated = FALSE
    /\ EditorClosed

HubInit ==
    /\ orig = <<>>
    /\ tables = <<>>
    /\ \E tableName \in HubTableNames, businessConcept \in HubConcepts :
          pre = [fn |-> "generateHubName", tableName |-> tableName,
                 businessConcept |-> businessConcept]
    /\ last = "none"
    /\ out = NothingYet
    /\ repeated = FALSE
    /\ EditorClosed

ArrayToCSV ==
    /\ last = "none"
    /\ pre.fn = "arrayToCSV"
    /\ last' = "arrayToCSV"
    /\ out' = [fault |-> FALSE, data |-> pre.data, text |-> arrayToCSV(pre.data),
               message |-> ""]
    /\ UNCHANGED <<orig, tables, pre, repeated>>
    /\ UNCHANGED editorVars

GenerateHubName ==
    /\ last = "none"
    /\ pre.fn = "generateHubName"
    /\ last' = "generateHubName"
    /\ out' = [fault |-> FALSE, data |-> <<>>,
               text |-> generateHubName(pre.tableName, pre.businessConcept),
               message |-> ""]
    /\ UNCHANGED <<orig, tables, pre, repeated>>
    /\ UNCHANGED editorVars

HelperNext == ArrayToCSV

HelperSpec == HelperInit /\ [][HelperNext]_vars

HubNext == GenerateHubName

HubSpec == HubInit /\ [][HubNext]_vars

(***************************************************************************)
(* The extension: the command that opens the editor (extension.ts), the    *)
(* editor panel MetadataEditorPanel, its DuckDB service and the handlers   *)
(* of the webview's messages.  A handler runs until it returns or reaches  *)
(* an await; what follows the await runs later, from the event loop, as a  *)
(* step of its own: pending holds the promises awaited.                    *)
(***************************************************************************)
\* the database files a panel is opened on
DbPaths == {"crm.duckdb", "fin.duckdb"}

\* one row of information_schema.columns
ColumnRow(schema, table, column, position) ==
    [table_catalog |-> "db", table_schema |-> schema, table_name |-> table,
     column_name |-> column, ordinal_position |-> position,
     data_type |-> "VARCHAR", is_nullable |-> "YES"]

\* the rows information_schema.columns holds in each database file
DatabaseAt(dbPath) ==
    CASE dbPath = "crm.duckdb" ->
            {ColumnRow("crm", "stg_customer_master", "id", 1),
             ColumnRow("crm", "stg_customer_master", "name", 2),
             ColumnRow("crm", "rv_order", "id", 1),
             ColumnRow("crm", "rv_order", "city", 2),
             ColumnRow("information_schema", "columns", "table_name", 1)}
      [] dbPath = "fin.duckdb" ->
            {ColumnRow("fin", "invoice", "amount", 2),
             ColumnRow("fin", "invoice", "id", 1),
             ColumnRow("fin", "notes", "text", 1),
             ColumnRow("log", "notes", "text", 1),
             ColumnRow("log", "Notes$2", "at", 1),
             ColumnRow("pg_catalog", "pg_class", "oid", 1)}

\* a < b in DuckDB's default (binary) collation: the first character that
\* differs decides, by code point
RECURSIVE stringBefore(_, _)
stringBefore(a, b) ==
    IF b = "" THEN FALSE
    ELSE IF a = "" THEN TRUE
    ELSE IF CharAt(a, 1) = CharAt(b, 1)
         THEN stringBefore(SubSeq(a, 2, Len(a)), SubSeq(b, 2, Len(b)))
         ELSE CodePoint[CharAt(a, 1)] < CodePoint[CharAt(b, 1)]

\* ORDER BY table_schema, table_name, ordinal_position
rowBefore(r, s) ==
    IF r.table_schema # s.table_schema THEN stringBefore(r.table_schema, s.table_schema)
    ELSE IF r.table_name # s.table_name THEN stringBefore(r.table_name, s.table_name)
    ELSE r.ordinal_position < s.ordinal_position

RECURSIVE orderRows(_)
orderRows(rows) ==
    IF rows = {} THEN <<>>
    ELSE LET first == CHOOSE r \in rows : \A s \in rows \ {r} : rowBefore(r, s)
         IN <<first>> \o orderRows(rows \ {first})

\* the query of getTableMetadata: the rows outside the two system schemas, ordered
queryColumns(dbPath) ==
    orderRows({r \in DatabaseAt(dbPath) :
                  r.table_schema \notin {"information_schema", "pg_catalog"}})

\* the key under which getTableMetadata groups a row
metadataKey(schema, table) == schema \o "." \o table

\* the Map of getTableMetadata after the rows, in insertion order: a row joins
\* the entry of its key, or opens a new entry at the end
RECURSIVE groupRows(_, _)
groupRows(rows, acc) ==
    IF rows = <<>> THEN acc
    ELSE LET row == Head(rows)
             key == metadataKey(row.table_schema, row.table_name)
             at == {k \in 1..Len(acc) : metadataKey(acc[k].schema, acc[k].table) = key}
         IN IF at = {}
            THEN groupRows(Tail(rows),
                           Append(acc, [schema |-> row.table_schema,
                                        table |-> row.table_name,
                                        columns |-> <<row>>]))
            ELSE LET k == CHOOSE k \in at : TRUE
                 IN groupRows(Tail(rows),
                              [acc EXCEPT ![k].columns = Append(acc[k].columns, row)])

\* new DuckDBService(dbPath): the database is opened once, at construction
\* (the duckdb module is taken to be installed, so the constructor returns)
DuckDBService(dbPath) == [db |-> dbPath]

\* what getTableMetadata resolves to: the tables of the database the service
\* was opened on, each with its column rows
getTableMetadata(service) == groupRows(queryColumns(service.db), <<>>)

\* webview.postMessage
Message(command, payload) == [command |-> command, payload |-> payload]
NoMessage == Message("none", <<>>)

\* the constructor: path, service and HTML all stem from dbPath
NewPanel(dbPath) ==
    [dbPath |-> dbPath,
     duckDBService |-> DuckDBService(dbPath),
     html |-> dbPath,
     posted |-> NoMessage]

\* most promises awaited at one time
MaxPending == 2

\* an awaited promise: the file dialog of the command that opens the editor,
\* the query _loadMetadata sent to its service, or the directory dialog
\* _exportCSV opened for the data of its message; alive is whether the panel
\* that awaits it is still MetadataEditorPanel.currentPanel
PendingSelection == [kind |-> "open"]
PendingLoad(service) == [kind |-> "load", service |-> service, alive |-> TRUE]
PendingExport(data) == [kind |-> "export", data |-> data, alive |-> TRUE]

RemoveAt(s, k) == SubSeq(s, 1, k - 1) \o SubSeq(s, k + 1, Len(s))

\* this._panel.webview.postMessage(message) by a panel that is current
postMessage(message) == Some([currentPanel[1] EXCEPT !.posted = message])

\* the message the host raises when the webview of a disposed panel is used
DisposedMessage == "Webview is disposed"

\* createOrShow(extensionUri, dbPath), called while the promises of awaited
\* are awaited: a panel that exists gets the path and starts _loadMetadata
\* without awaiting it; otherwise a panel is constructed
CreateOrShow(dbPath, awaited) ==
    /\ IF currentPanel # None
       THEN /\ Len(awaited) < MaxPending
            /\ currentPanel' = Some([currentPanel[1] EXCEPT !.dbPath = dbPath])
            /\ pending' = Append(awaited, PendingLoad(currentPanel[1].duckDBService))
       ELSE /\ currentPanel' = Some(NewPanel(dbPath))
            /\ pending' = awaited
    /\ UNCHANGED <<files, notice, exportRequest, metadataFile>>
    /\ UNCHANGED exportVars

\* what the command may find or be given: no file, or a database file
FileChoices == {None} \cup {Some(dbPath) : dbPath \in DbPaths}

\* the command metadata-frontend.openEditor up to its await: active is the
\* .duckdb file of the active editor, if there is one; without one the file
\* dialog is opened
OpenEditor ==
    \E active \in FileChoices :
        IF active # None
        THEN CreateOrShow(active[1], pending)
        ELSE /\ Len(pending) < MaxPending
             /\ pending' = Append(pending, PendingSelection)
             /\ UNCHANGED <<currentPanel, files, notice, exportRequest, metadataFile>>
             /\ UNCHANGED exportVars

\* the command after its await: the file dialog of entry k was closed
OpenEditorSettled ==
    \E k \in 1..Len(pending), selectedFiles \in FileChoices :
        /\ pending[k].kind = "open"
        /\ IF selectedFiles # None
           THEN CreateOrShow(selectedFiles[1], RemoveAt(pending, k))
           ELSE /\ notice' = "Please select a DuckDB database file"
                /\ pending' = RemoveAt(pending, k)
                /\ UNCHANGED <<currentPanel, files, exportRequest, metadataFile>>
                /\ UNCHANGED exportVars

\* dispose(): the panel is closed and its service with it; what the panel
\* awaits stays awaited
Dispose ==
    /\ currentPanel # None
    /\ currentPanel' = None
    /\ pending' = [k \in 1..Len(pending) |->
                     IF pending[k].kind = "open" THEN pending[k]
                     ELSE [pending[k] EXCEPT !.alive = FALSE]]
    /\ UNCHANGED <<files, notice, exportRequest, metadataFile>>
    /\ UNCHANGED exportVars

\* the webview's 'ready' message
Ready ==
    /\ currentPanel # None
    /\ currentPanel' = postMessage(Message("dbPath", <<currentPanel[1].dbPath>>))
    /\ UNCHANGED <<files, notice, exportRequest, pending, metadataFile>>
    /\ UNCHANGED exportVars

\* the webview's 'loadMetadata' message: _loadMetadata up to its await
LoadMetadata ==
    /\ currentPanel # None
    /\ Len(pending) < MaxPending
    /\ pending' = Append(pending, PendingLoad(currentPanel[1].duckDBService))
    /\ UNCHANGED <<currentPanel, files, notice, exportRequest, metadataFile>>
    /\ UNCHANGED exportVars

\* _loadMetadata after its await: the query of entry k has settled, ok is
\* whether it resolved; disposedThrows is whether the host raises an error
\* when the webview of a disposed panel is used
LoadMetadataSettled ==
    \E k \in 1..Len(pending), ok \in BOOLEAN, disposedThrows \in BOOLEAN :
        /\ pending[k].kind = "load"
        /\ pending' = RemoveAt(pending, k)
        /\ IF ok
           THEN IF pending[k].alive
                THEN /\ currentPanel' = postMessage(
                            Message("metadataLoaded", getTableMetadata(pending[k].service)))
                     /\ UNCHANGED notice
                ELSE /\ notice' = IF disposedThrows
                                  THEN "Error loading metadata: " \o DisposedMessage
                                  ELSE notice
                     /\ UNCHANGED currentPanel
           ELSE /\ notice' = "Error loading metadata: query failed"
                /\ IF pending[k].alive
                   THEN currentPanel' = postMessage(Message("error", <<"query failed">>))
                   ELSE UNCHANGED currentPanel
        /\ UNCHANGED <<files, exportRequest, metadataFile>>
        /\ UNCHANGED exportVars

\* the values a saveMetadata message may carry: nothing, or a list of strings
SaveData == {None, Some(<<"crm.rv_order", "say \"hi\"">>)}

\* JSON.stringify(list, null, 2)
jsonStringifyIndented(list) ==
    IF list = <<>> THEN "[]"
    ELSE LET RECURSIVE items(_)
             items(k) ==
                 IF k > Len(list) THEN ""
                 ELSE (IF k = 1 THEN "" ELSE ",") \o "\n  \"" \o jsonEscape(list[k])
                          \o "\"" \o items(k + 1)
         IN "[" \o items(1) \o "\n]"

\* the message of the TypeError fs.writeFileSync raises when it is given
\* undefined, which is what JSON.stringify(undefined, null, 2) returns
WriteUndefinedMessage ==
    "The \"data\" argument must be of type string or an instance of Buffer, "
        \o "TypedArray, or DataView. Received undefined"

\* the webview's 'saveMetadata' message
SaveMetadata ==
    \E data \in SaveData, hasWorkspace \in BOOLEAN :
        /\ currentPanel # None
        /\ IF ~hasWorkspace
           THEN /\ notice' = "No workspace folder open"
                /\ UNCHANGED <<currentPanel, metadataFile>>
           ELSE IF data = None
           THEN /\ notice' = "Error saving metadata: " \o WriteUndefinedMessage
                /\ UNCHANGED <<currentPanel, metadataFile>>
           ELSE /\ metadataFile' = Some(jsonStringifyIndented(data[1]))
                /\ notice' = "Metadata saved successfully"
                /\ currentPanel' = postMessage(Message("saveSuccess", <<>>))
        /\ UNCHANGED <<files, exportRequest, pending>>
        /\ UNCHANGED exportVars

\* the texts an alert message may carry
AlertTexts == {"Select a table first"}

\* the webview's 'alert' message
Alert ==
    \E text \in AlertTexts :
        /\ currentPanel # None
        /\ notice' = text
        /\ UNCHANGED <<currentPanel, files, exportRequest, pending, metadataFile>>
        /\ UNCHANGED exportVars

\* one column of _convertToTableMetadata: isBusinessKey is !!col.businessKeyGroup;
\* hashkeyName, isHashkey, data_type and is_nullable are not copied
convertColumn(col) ==
    [col EXCEPT !.isBusinessKey = (col.businessKeyGroup # ""),
                !.hashkeyName = "", !.isHashkey = FALSE,
                !.data_type = "", !.is_nullable = ""]

\* one table of _convertToTableMetadata: schema, table, businessConcept,
\* businessKeyGroups and the converted columns, and no other field
convertTable(table) ==
    [table EXCEPT !.hashdiffGroups = None, !.createSatellite = FALSE,
                  !.columns = [k \in 1..Len(table.columns) |->
                                  convertColumn(table.columns[k])]]

\* the data of an exportCSV message: not given, or an object whose tables
\* field is absent (None) or a list of tables
NoData == [given |-> FALSE, tables |-> None]
Data(ts) == [given |-> TRUE, tables |-> ts]

\* _convertToTableMetadata(data), for data that is given
convertToTableMetadata(data) ==
    IF data.tables = None THEN <<>>
    ELSE [i \in 1..Len(data.tables[1]) |-> convertTable(data.tables[1][i])]

\* the exports array of _exportCSV, built in this order on one table list
exportsOf(ts) ==
    <<[name |-> "source_data", content |-> exportSourceData(ts)],
      [name |-> "standard_hub", content |-> exportStandardHub(ts)],
      [name |-> "standard_satellite", content |-> exportStandardSatellite(ts)],
      [name |-> "standard_link", content |-> exportStandardLink(satelliteTablesAfter(ts))]>>

\* the white space and line terminators String.prototype.trim removes: tab
\* to carriage return, space, no-break space, and beyond U+00FF the two a
\* string literal can hold, U+1680 and U+FEFF
WhiteSpace ==
    {c \in DOMAIN CodePoint : CodePoint[c] \in {9, 10, 11, 12, 13, 32, 160}}
        \cup {" ", "﻿"}

\* content.trim().length === 0
isBlank(content) == \A i \in 1..Len(content) : CharAt(content, i) \in WhiteSpace

\* a table whose hub group has no columns list
UnlistedGroupTable ==
    Table("s", "t", "",
          Some(<<[HubGroup("hk_t_h", "T", <<>>) EXCEPT !.columns = None]>>),
          None,
          <<Column("id", 0, FALSE, FALSE, FALSE)>>)

\* the webview data an exportCSV message may carry
WebviewData ==
    {NoData, Data(None), Data(Some(<<OrderTable>>)),
     Data(Some(<<CustomerTable, OrderTable>>)), Data(Some(<<UnlistedGroupTable>>))}

\* the message of the error that ends the try block of _exportCSV before a
\* file is written, "" when there is none: the TypeError of the first export
\* of the array that throws
exportError(exports) ==
    LET thrown == {j \in 1..Len(exports) : exports[j].content.fault}
    IN IF thrown = {} THEN ""
       ELSE exports[CHOOSE j \in thrown : \A i \in thrown : j <= i].content.message

\* what _exportCSV builds for each message data before it writes: the error
\* that ends it (data.tables read of undefined, or the error of an export),
\* or the exports array
exportsBuilt ==
    [data \in WebviewData |->
        IF ~data.given THEN [error |-> TypeErrorReading("tables"), exports |-> <<>>]
        ELSE LET exports == exportsOf(convertToTableMetadata(data))
             IN IF exportError(exports) # ""
                THEN [error |-> exportError(exports), exports |-> <<>>]
                ELSE [error |-> "", exports |-> exports]]

\* the webview's 'exportCSV' message: _exportCSV up to its await, the
\* directory dialog
ExportCSV ==
    \E data \in WebviewData, hasWorkspace \in BOOLEAN :
        /\ currentPanel # None
        /\ IF ~hasWorkspace
           THEN /\ notice' = "No workspace folder open"
                /\ UNCHANGED pending
           ELSE /\ Len(pending) < MaxPending
                /\ pending' = Append(pending, PendingExport(data))
                /\ UNCHANGED notice
        /\ UNCHANGED <<currentPanel, files, exportRequest, metadataFile>>
        /\ UNCHANGED exportVars

\* _exportCSV after its await: the dialog of entry k was closed, dirChosen is
\* whether a directory was picked; the files are written before the webview
\* is used
ExportCSVSettled ==
    \E k \in 1..Len(pending), dirChosen \in BOOLEAN, disposedThrows \in BOOLEAN :
        /\ pending[k].kind = "export"
        /\ pending' = RemoveAt(pending, k)
        /\ IF ~dirChosen
           THEN UNCHANGED <<currentPanel, files, notice, exportRequest>>
           ELSE \E built \in {exportsBuilt[pending[k].data]} :
                IF built.error # ""
                THEN /\ notice' = "Error exporting CSV: " \o built.error
                     /\ UNCHANGED <<currentPanel, files, exportRequest>>
                ELSE \E written \in {{built.exports[j] :
                                          j \in {j \in 1..Len(built.exports) :
                                                    ~isBlank(built.exports[j].content.text)}}} :
                        /\ files' = [n \in ExportNames |->
                                       IF \E e \in written : e.name = n
                                       THEN Some((CHOOSE e \in written : e.name = n).content.text)
                                       ELSE files[n]]
                        /\ exportRequest' = Some(pending[k].data)
                        /\ IF pending[k].alive
                           THEN /\ currentPanel' = postMessage(Message("exportSuccess", <<>>))
                                /\ notice' = "Successfully exported "
                                                \o String(Cardinality(written)) \o " CSV files"
                           ELSE /\ notice' = IF disposedThrows
                                             THEN "Error exporting CSV: " \o DisposedMessage
                                             ELSE "Successfully exported "
                                                     \o String(Cardinality(written))
                                                     \o " CSV files"
                                /\ UNCHANGED currentPanel
        /\ UNCHANGED metadataFile
        /\ UNCHANGED exportVars

EditorInit ==
    /\ orig = <<>>
    /\ tables = <<>>
    /\ pre = <<>>
    /\ last = "none"
    /\ out = NothingYet
    /\ repeated = FALSE
    /\ EditorClosed

EditorNext ==
    \/ OpenEditor \/ OpenEditorSettled \/ Dispose
    \/ Ready \/ LoadMetadata \/ LoadMetadataSettled
    \/ SaveMetadata \/ Alert
    \/ ExportCSV \/ ExportCSVSettled

EditorSpec == EditorInit /\ [][EditorNext]_vars

(***************************************************************************)
(* Properties.  Rows is the data rows of the relation the last call        *)
(* returned; pre is the input that call received.                          *)
(***************************************************************************)
Rows == IF out.data = <<>> THEN <<>> ELSE Tail(out.data)

ReturnedBy(name) == last = name /\ ~out.fault

\* no two tables of the list share a source identifier
DistinctTables(ts) ==
    \A i, j \in 1..Len(ts) : i # j => sourceIdentifier(ts[i]) # sourceIdentifier(ts[j])

HubCell(row, name) == Field(HubHeaders, row, name)
LinkCell(row, name) == Field(LinkHeaders, row, name)
SatelliteCell(row, name) == Field(SatelliteHeaders, row, name)
InformationSchemaCell(row, name) == Field(InformationSchemaHeaders, row, name)

\* the rows offset+1 .. offset+n of the hub relation are the rows of the group
\* with columns c1..cn of table t: its columns in its order, numbered 1..n
HubSegmentAt(t, group, offset) ==
    LET cols == group.columns[1]
    IN /\ offset + Len(cols) <= Len(Rows)
       /\ \A k \in 1..Len(cols) :
            LET row == Rows[offset + k]
            IN /\ HubCell(row, "Source_Table_Identifier") = sourceIdentifier(t)
               /\ HubCell(row, "Source_Column_Physical_Name") = cols[k]
               /\ HubCell(row, "Business_Key_Physical_Name") = cols[k]
               /\ HubCell(row, "Target_Column_Sort_Order") = String(k)
               /\ group.hashkeyName # "" =>
                    HubCell(row, "Target_Primary_Key_Physical_Name") = group.hashkeyName

\* C1: after exportStandardHub, for every table and every non-link business-key
\* group with columns c1..cn, the hub relation holds n contiguous rows that
\* carry c1..cn in the group's order with Target_Column_Sort_Order 1..n,
\* whatever the stored order or the position of the columns in the table.
C1_HubGroupOrder ==
    ReturnedBy("exportStandardHub") =>
        \A i \in 1..Len(pre) :
            \A g \in 1..Len(groupsOf(pre[i])) :
                ~groupsOf(pre[i])[g].isLink =>
                    \E offset \in 0..Len(Rows) :
                        HubSegmentAt(pre[i], groupsOf(pre[i])[g], offset)

\* a hub relation was returned for a group whose two first columns stand in
\* the table in the opposite order and whose first column has a stored order
\* other than 1
C1_Witness ==
    /\ ReturnedBy("exportStandardHub")
    /\ \E i \in 1..Len(pre) :
         \E g \in 1..Len(groupsOf(pre[i])) :
            LET group == groupsOf(pre[i])[g]
                t == pre[i]
            IN /\ ~group.isLink
               /\ Len(group.columns[1]) >= 2
               /\ findColumn(t, group.columns[1][1]) > findColumn(t, group.columns[1][2])
               /\ findColumn(t, group.columns[1][2]) > 0
               /\ t.columns[findColumn(t, group.columns[1][1])].order > 1

\* the hub rows of table t, in output order
HubRowsOf(t) ==
    LET Mine(row) == HubCell(row, "Source_Table_Identifier") = sourceIdentifier(t)
    IN SelectSeq(Rows, Mine)

\* C2: after exportStandardHub, every table that contributes at least one hub
\* row has exactly one row with Is_Primary_Source = "1", its first row (the
\* first column of its first group); all its other rows have "0".
C2_OnePrimaryPerTable ==
    (ReturnedBy("exportStandardHub") /\ DistinctTables(pre)) =>
        \A i \in 1..Len(pre) :
            LET mine == HubRowsOf(pre[i])
            IN \A k \in 1..Len(mine) :
                  HubCell(mine[k], "Is_Primary_Source") = (IF k = 1 THEN "1" ELSE "0")

\* the rows of the link relation for reference refHashkey of a link group of
\* table t
LinkRowsOf(t, name, refHashkey) ==
    LET Mine(row) ==
            /\ LinkCell(row, "Link_Identifier") = "L_" \o name
            /\ LinkCell(row, "Source_Table_Identifier") = sourceIdentifier(t)
            /\ LinkCell(row, "Hub_primary_key_physical_name") = refHashkey
    IN SelectSeq(Rows, Mine)

\* C3: after exportStandardLink, when a referenced hashkey name is carried by
\* non-link groups of two or more tables, the rows of the reference carry the
\* hub identifier and the columns of the first of these tables in input order.
C3_FirstMatchWins ==
    (ReturnedBy("exportStandardLink") /\ DistinctTables(pre)) =>
        \A i \in 1..Len(pre) :
            \A l \in 1..Len(linkGroups(pre[i])) :
                LET group == linkGroups(pre[i])[l]
                    refs == OrElse(group.referencedHashkeys, <<>>)
                IN \A r \in 1..Len(refs) :
                      LET m == matchingTables(pre, refs[r])
                          first == pre[m[1]]
                          cols == OrElse(groupsOf(first)[findHashkeyGroup(first, refs[r])].columns,
                                         <<>>)
                          mine == LinkRowsOf(pre[i], linkNameOf(pre[i], group, l - 1), refs[r])
                      IN Len(m) >= 2 =>
                            /\ \A k \in 1..Len(mine) :
                                  LinkCell(mine[k], "Hub_Identifier") =
                                      "H_" \o generateHubName(first.table, first.businessConcept)
                            /\ Len(cols) > 0 =>
                                  [k \in 1..Len(mine) |->
                                      LinkCell(mine[k], "Source_Column_Physical_Name")] = cols

\* C4: no export function modifies its input: after any sequence of calls every
\* table, group, hashdiff group and column has the field values it was built
\* with.
C4_InputUnmodified == tables = orig

\* C5: calling an export function twice in a row on the same input object
\* yields the same result both times.
C5_Idempotent == [][last' = last => out' = out]_vars

\* exportStandardSatellite was called twice in a row, the first call wrote an
\* auto-selected hashkey into the input, and the second returned rows
C5_Witness ==
    /\ ReturnedBy("exportStandardSatellite")
    /\ repeated
    /\ pre # orig
    /\ Len(Rows) > 0

\* what the named export function returns for the table list ts
Alone(name, ts) ==
    CASE name = "exportSourceData" -> exportSourceData(ts)
      [] name = "exportStandardHub" -> exportStandardHub(ts)
      [] name = "exportStandardSatellite" -> exportStandardSatellite(ts)
      [] name = "exportStandardLink" -> exportStandardLink(ts)
      [] name = "exportInformationSchemaFormat" -> exportInformationSchemaFormat(ts)

\* C6: in whatever order the five export functions are invoked on one input
\* object, each call returns what the function returns when invoked alone on a
\* fresh copy of the input.
C6_OrderIndependent == last # "none" => out = Alone(last, orig)

\* the denormalized export returned rows for an input object that an earlier
\* exportStandardSatellite call had written to
C6_Witness ==
    /\ ReturnedBy("exportInformationSchemaFormat")
    /\ pre # orig
    /\ Len(Rows) > 0

\* the satellite base name of a hashdiff group
SatelliteNameOf(hd) == stripSuffix(stripPrefix(hd.name, "hd_"), "_sat")

\* rows holds a row for column x of table t under the satellite of hd
HasSatelliteRow(rows, t, hd, x) ==
    \E k \in 1..Len(rows) :
        /\ SatelliteCell(rows[k], "Satellite_Identifier") = "S_" \o SatelliteNameOf(hd)
        /\ SatelliteCell(rows[k], "Source_Table_Identifier") = sourceIdentifier(t)
        /\ SatelliteCell(rows[k], "Source_Column_Physical_Name") = x

\* the table list ts with column x taken out of the exclusion list of hashdiff
\* group d of table i
WithoutExclusion(ts, i, d, x) ==
    LET Keep(c) == c # x
        hd == hashdiffsOf(ts[i])[d]
        hd2 == [hd EXCEPT !.excludedColumns = Some(SelectSeq(hd.excludedColumns[1], Keep))]
    IN [ts EXCEPT ![i].hashdiffGroups = Some([hashdiffsOf(ts[i]) EXCEPT ![d] = hd2])]

\* hashdiff group hd of table t is a select_all group with a concept and a
\* resolved hashkey
AcceptedSelectAll(t, hd) ==
    /\ hd.concept # ""
    /\ resolveHashkey(t, hd) # ""
    /\ hd.mode \in {"", "select_all"}
    /\ hd.excludedColumns # None

\* x is a column of table t that is neither in a business-key group nor the
\* record-source nor the load-date column
PlainColumn(t, x) ==
    /\ findColumn(t, x) # 0
    /\ \A g \in 1..Len(groupsOf(t)) : ~Includes(OrElse(groupsOf(t)[g].columns, <<>>), x)
    /\ x # recordSourceCol(t)
    /\ x # loadDateCol(t)

\* C7: after exportStandardSatellite, for a select_all hashdiff group with
\* concept and resolved hashkey, no row of the group carries a column X of its
\* exclusion list; and if X is a plain column of the table, the export of the
\* same input with X taken out of the exclusion list has a row for X.
C7_ExclusionCorrect ==
    ReturnedBy("exportStandardSatellite") =>
        \A i \in 1..Len(pre) :
            \A d \in 1..Len(hashdiffsOf(pre[i])) :
                LET t == pre[i]
                    hd == hashdiffsOf(t)[d]
                IN AcceptedSelectAll(t, hd) =>
                      \A e \in 1..Len(hd.excludedColumns[1]) :
                          LET x == hd.excludedColumns[1][e]
                              changed == exportStandardSatellite(WithoutExclusion(pre, i, d, x))
                          IN /\ ~HasSatelliteRow(Rows, t, hd, x)
                             /\ PlainColumn(t, x) =>
                                   /\ ~changed.fault
                                   /\ HasSatelliteRow(Tail(changed.data), t, hd, x)

\* a satellite relation was returned for a select_all group that excludes a
\* plain column and still has member columns
C7_Witness ==
    /\ ReturnedBy("exportStandardSatellite")
    /\ \E i \in 1..Len(pre) :
         \E d \in 1..Len(hashdiffsOf(pre[i])) :
            LET t == pre[i]
                hd == hashdiffsOf(t)[d]
            IN /\ AcceptedSelectAll(t, hd)
               /\ \E e \in 1..Len(hd.excludedColumns[1]) :
                     PlainColumn(t, hd.excludedColumns[1][e])
               /\ \E c \in 1..Len(t.columns) :
                     HasSatelliteRow(Rows, t, hd, t.columns[c].column)

\* the non-link groups, over all tables, whose hashkey name is refHashkey
OwnersOf(ts, refHashkey) ==
    UNION {{<<a, g>> : g \in {h \in 1..Len(groupsOf(ts[a])) :
                                /\ ~groupsOf(ts[a])[h].isLink
                                /\ groupsOf(ts[a])[h].hashkeyName = refHashkey}} :
           a \in 1..Len(ts)}

\* reference r of link group l (1-based among the link groups) of table b can
\* be told apart in the link relation: no other table has b's identifier, no
\* other link group of b has the same name, the name is referenced once
ReferenceIsIdentifiable(ts, b, l, r) ==
    LET lg == linkGroups(ts[b])
        refs == OrElse(lg[l].referencedHashkeys, <<>>)
    IN /\ \A j \in 1..Len(ts) :
            j # b => sourceIdentifier(ts[j]) # sourceIdentifier(ts[b])
       /\ \A m \in 1..Len(lg) :
            m # l => linkNameOf(ts[b], lg[m], m - 1) # linkNameOf(ts[b], lg[l], l - 1)
       /\ \A q \in 1..Len(refs) : q # r => refs[q] # refs[r]

\* C8: after exportStandardLink, for a link group of table B that references a
\* hashkey name owned by exactly one non-link group G of a table A, with columns
\* k1..kn (n >= 1), the link relation holds exactly n rows for the reference,
\* in the order k1..kn, each with Hub_Identifier "H_" + hubName(A), source and
\* target column ki, Hub_primary_key_physical_name the referenced name, and the
\* Source_Table_Identifier of B.
C8_LinkResolution ==
    ReturnedBy("exportStandardLink") =>
        \A b \in 1..Len(pre) :
            \A l \in 1..Len(linkGroups(pre[b])) :
                LET group == linkGroups(pre[b])[l]
                    refs == OrElse(group.referencedHashkeys, <<>>)
                IN \A r \in 1..Len(refs) :
                      LET owners == OwnersOf(pre, refs[r])
                          owner == CHOOSE o \in owners : TRUE
                          A == pre[owner[1]]
                          cols == groupsOf(A)[owner[2]].columns[1]
                          mine == LinkRowsOf(pre[b], linkNameOf(pre[b], group, l - 1), refs[r])
                      IN (/\ Cardinality(owners) = 1
                          /\ ReferenceIsIdentifiable(pre, b, l, r)
                          /\ Len(cols) >= 1) =>
                            /\ Len(mine) = Len(cols)
                            /\ \A k \in 1..Len(cols) :
                                  /\ LinkCell(mine[k], "Hub_Identifier") =
                                        "H_" \o generateHubName(A.table, A.businessConcept)
                                  /\ LinkCell(mine[k], "Source_Column_Physical_Name") = cols[k]
                                  /\ LinkCell(mine[k], "Target_column_physical_name") = cols[k]
                                  /\ LinkCell(mine[k], "Hub_primary_key_physical_name") = refs[r]
                                  /\ LinkCell(mine[k], "Source_Table_Identifier") =
                                        sourceIdentifier(pre[b])

\* a link relation was returned for a link group of one table that references
\* a hashkey owned by a single group, of two or more columns, of another table
C8_Witness ==
    /\ ReturnedBy("exportStandardLink")
    /\ \E b \in 1..Len(pre) :
         \E l \in 1..Len(linkGroups(pre[b])) :
            LET refs == OrElse(linkGroups(pre[b])[l].referencedHashkeys, <<>>)
            IN \E r \in 1..Len(refs) :
                  /\ Cardinality(OwnersOf(pre, refs[r])) = 1
                  /\ ReferenceIsIdentifiable(pre, b, l, r)
                  /\ \E o \in OwnersOf(pre, refs[r]) :
                        /\ o[1] # b
                        /\ Len(groupsOf(pre[o[1]])[o[2]].columns[1]) >= 2

\* every group and hashdiff group of the list has the shape the README
\* documents: a hub hashkey has a columns list, a hashdiff group has a mode and
\* both column lists (a link hashkey has no columns list there)
DocumentedShapes(ts) ==
    \A i \in 1..Len(ts) :
        /\ \A g \in 1..Len(groupsOf(ts[i])) :
              ~groupsOf(ts[i])[g].isLink => groupsOf(ts[i])[g].columns # None
        /\ \A d \in 1..Len(hashdiffsOf(ts[i])) :
              /\ hashdiffsOf(ts[i])[d].mode \in {"select_all", "select_explicit"}
              /\ hashdiffsOf(ts[i])[d].excludedColumns # None
              /\ hashdiffsOf(ts[i])[d].includedColumns # None

\* C9: no export function raises a fault on an input of the documented shapes;
\* every call returns a relation.
C9_NoFault == (last # "none" /\ DocumentedShapes(pre)) => ~out.fault

\* the names of the hashdiff groups of t under which the satellite relation
\* rows has a row for column x, in group order
SatellitesOfColumn(rows, t, x) ==
    LET In(hd) == HasSatelliteRow(rows, t, hd, x)
        m == SelectSeq(hashdiffsOf(t), In)
    IN [k \in 1..Len(m) |-> m[k].name]

\* C10: after exportInformationSchemaFormat, the hashdiff_names field of the
\* row of column C of a table lists hashdiff group D if and only if
\* exportStandardSatellite emits, for the same input, a row for C under D.
C10_DenormalizedAgrees ==
    (ReturnedBy("exportInformationSchemaFormat") /\ ~exportStandardSatellite(pre).fault) =>
        LET satellite == Tail(exportStandardSatellite(pre).data)
        IN \A i \in 1..Len(pre) :
              \A k \in 1..Len(Rows) :
                  (/\ InformationSchemaCell(Rows[k], "table_schema") = pre[i].schema
                   /\ InformationSchemaCell(Rows[k], "table_name") = pre[i].table) =>
                      LET names == SatellitesOfColumn(satellite, pre[i],
                                       InformationSchemaCell(Rows[k], "column_name"))
                      IN InformationSchemaCell(Rows[k], "hashdiff_names") =
                            (IF names = <<>> THEN "" ELSE jsonStringify(names))

\* the position of the character that ends the field starting at start: the
\* first comma or newline with an even number of double quotes between start
\* and it, or one past the end of the text
FieldEnd(text, start) ==
    LET Ends(i) ==
            /\ SubSeq(text, i, i) \in {",", "\n"}
            /\ Cardinality({j \in start..(i - 1) : SubSeq(text, j, j) = "\""}) % 2 = 0
    IN IF \E i \in start..Len(text) : Ends(i)
       THEN CHOOSE i \in start..Len(text) :
                Ends(i) /\ \A k \in start..(i - 1) : ~Ends(k)
       ELSE Len(text) + 1

\* the raw fields of a CSV text, row by row: a comma outside quotes ends a
\* field, a newline outside quotes ends a row
RECURSIVE ReadFields(_, _, _, _)
ReadFields(text, start, row, rows) ==
    LET e == FieldEnd(text, start)
        field == SubSeq(text, start, e - 1)
    IN IF e > Len(text) THEN Append(rows, Append(row, field))
       ELSE IF SubSeq(text, e, e) = ","
            THEN ReadFields(text, e + 1, Append(row, field), rows)
       ELSE ReadFields(text, e + 1, <<>>, Append(rows, Append(row, field)))

\* s with every pair of double quotes read as one; None if s has a double
\* quote that is not part of a pair
RECURSIVE Undoubled(_)
Undoubled(s) ==
    IF s = "" THEN Some("")
    ELSE IF SubSeq(s, 1, 1) # "\""
         THEN LET rest == Undoubled(SubSeq(s, 2, Len(s)))
              IN IF rest = None THEN None ELSE Some(SubSeq(s, 1, 1) \o rest[1])
    ELSE IF Len(s) >= 2 /\ SubSeq(s, 2, 2) = "\""
         THEN LET rest == Undoubled(SubSeq(s, 3, Len(s)))
              IN IF rest = None THEN None ELSE Some("\"" \o rest[1])
    ELSE None

NeedsQuoting(cell) ==
    \E i \in 1..Len(cell) : SubSeq(cell, i, i) \in {",", "\"", "\n"}

\* raw is the cell wrapped in double quotes with its double quotes doubled
IsQuotedForm(raw, cell) ==
    /\ Len(raw) >= 2
    /\ SubSeq(raw, 1, 1) = "\""
    /\ SubSeq(raw, Len(raw), Len(raw)) = "\""
    /\ Undoubled(SubSeq(raw, 2, Len(raw) - 1)) = Some(cell)

\* text is the CSV of the row-set data, as the format is specified
IsCsvOf(text, data) ==
    IF data = <<>> THEN text = ""
    ELSE LET read == ReadFields(text, 1, <<>>, <<>>)
         IN /\ Len(read) = Len(data)
            /\ \A r \in 1..Len(data) :
                  /\ Len(read[r]) = Len(data[r])
                  /\ \A c \in 1..Len(data[r]) :
                        IF NeedsQuoting(data[r][c])
                        THEN IsQuotedForm(read[r][c], data[r][c])
                        ELSE read[r][c] = data[r][c]

\* C11: arrayToCSV writes a field in double quotes, with its double quotes
\* doubled, exactly when it holds a comma, a double quote or a newline, and
\* verbatim otherwise; fields are joined by single commas and rows by single
\* newlines, with nothing trailing.
C11_CsvFormat == last = "arrayToCSV" => IsCsvOf(out.text, pre.data)

\* the example of the format was converted
C11_Witness ==
    /\ last = "arrayToCSV"
    /\ pre.data = <<<<"He said \"hi\", ok">>>>
    /\ out.text = "\"He said \"\"hi\"\", ok\""

\* the header row of the relation an export function writes
HeadersOf(name) ==
    CASE name = "exportSourceData" -> SourceHeaders
      [] name = "exportStandardHub" -> HubHeaders
      [] name = "exportStandardSatellite" -> SatelliteHeaders
      [] name = "exportStandardLink" -> LinkHeaders
      [] name = "exportInformationSchemaFormat" -> InformationSchemaHeaders

\* C12: called with an empty table list, every export function returns the
\* header row of its relation and nothing else: one line, no data row, no
\* trailing newline.
C12_EmptyInput ==
    (last # "none" /\ pre = <<>>) =>
        /\ ~out.fault
        /\ \A i \in 1..Len(out.text) : SubSeq(out.text, i, i) # "\n"
        /\ ReadFields(out.text, 1, <<>>, <<>>) = <<HeadersOf(last)>>

\* the hub export was called with an empty table list
C12_Witness ==
    /\ last = "exportStandardHub"
    /\ pre = <<>>
    /\ out.text = "Hub_Identifier,Target_Hub_table_physical_name,Source_Table_Identifier,Source_Column_Physical_Name,Business_Key_Physical_Name,Target_Column_Sort_Order,Target_Primary_Key_Physical_Name,Record_Tracking_Satellite,Is_Primary_Source,Group_Name"

\* the text before the first underscore of s, all of s when it has none
FirstTokenOf(s) ==
    LET under == {i \in 1..Len(s) : SubSeq(s, i, i) = "_"}
    IN IF under = {} THEN s
       ELSE SubSeq(s, 1, (CHOOSE i \in under : \A j \in under : i <= j) - 1)

\* s without one leading stg_, rv_ or hub_, in any letter case
WithoutKnownPrefix(s) ==
    LET known == {"stg_", "rv_", "hub_"}
        found == {p \in known : Len(s) >= Len(p) /\ toLowerCase(SubSeq(s, 1, Len(p))) = p}
    IN IF found = {} THEN s
       ELSE LET p == CHOOSE p \in found : TRUE IN SubSeq(s, Len(p) + 1, Len(s))

\* C13 as stated: with a business concept the hub name is the lowercased concept
\* followed by _h; without one it is the first underscore-delimited token of
\* the table name, after one known prefix is removed, followed by _h.
C13_HubNameFirstToken ==
    last = "generateHubName" =>
        out.text = (IF pre.businessConcept # ""
                    THEN toLowerCase(pre.businessConcept) \o "_h"
                    ELSE FirstTokenOf(WithoutKnownPrefix(pre.tableName)) \o "_h")

\* C13 amended: as stated, except that when the first token is empty (the
\* name left after the prefix starts with an underscore) the whole name left
\* after the prefix is used in its place.
C13_HubName ==
    last = "generateHubName" =>
        LET cleaned == WithoutKnownPrefix(pre.tableName)
            token == FirstTokenOf(cleaned)
        IN out.text = (IF pre.businessConcept # ""
                       THEN toLowerCase(pre.businessConcept) \o "_h"
                       ELSE IF token # "" THEN token \o "_h"
                       ELSE cleaned \o "_h")

\* a name was computed for a table whose name, after the prefix, starts with
\* an underscore, so that its first token is empty
C13_Witness ==
    /\ last = "generateHubName"
    /\ pre.tableName = "stg__orders"
    /\ pre.businessConcept = ""
    /\ out.text = "_orders_h"

SourceCell(row, name) == Field(SourceHeaders, row, name)

\* the name of the first column of t for which Flag holds, "" when there is none
FirstFlagged(t, Flag(_)) ==
    LET flagged == SelectSeq(t.columns, Flag)
    IN IF flagged = <<>> THEN "" ELSE Head(flagged).column

\* C14: exportSourceData returns exactly one data row per input table, in input
\* order, none left out; the record-source and load-date fields name the first
\* column carrying the flag, and are empty when no column carries it.
C14_SourceRows ==
    ReturnedBy("exportSourceData") =>
        /\ Len(Rows) = Len(pre)
        /\ \A i \in 1..Len(pre) :
              LET IsRecordSource(c) == c.isRecordSource
                  IsLoadDate(c) == c.isLoadDate
              IN /\ SourceCell(Rows[i], "Source_Schema_Physical_Name") = pre[i].schema
                 /\ SourceCell(Rows[i], "Source_Table_Physical_Name") = pre[i].table
                 /\ SourceCell(Rows[i], "Record_Source_Column") =
                        FirstFlagged(pre[i], IsRecordSource)
                 /\ SourceCell(Rows[i], "Load_Date_Column") =
                        FirstFlagged(pre[i], IsLoadDate)

\* the source relation was returned for a table with nothing annotated
\* followed by one with two record-source and two load-date columns
C14_Witness ==
    /\ ReturnedBy("exportSourceData")
    /\ pre = <<PlainTable, ShipmentTable>>
    /\ SourceCell(Rows[1], "Record_Source_Column") = ""
    /\ SourceCell(Rows[2], "Record_Source_Column") = "src_a"
    /\ SourceCell(Rows[2], "Load_Date_Column") = "loaded"

\* the rows of the satellite relation rows that belong to hashdiff group hd of
\* table t, in the order of the relation
SatelliteRowsOf(rows, t, hd) ==
    LET Mine(row) ==
            /\ SatelliteCell(row, "Satellite_Identifier") = "S_" \o SatelliteNameOf(hd)
            /\ SatelliteCell(row, "Source_Table_Identifier") = sourceIdentifier(t)
    IN SelectSeq(rows, Mine)

\* hashdiff group hd of table t has a concept and a resolved hashkey
Accepted(t, hd) == hd.concept # "" /\ resolveHashkey(t, hd) # ""

\* hashdiff names are told apart within table t
DistinctHashdiffs(t) ==
    \A d, e \in 1..Len(hashdiffsOf(t)) :
        d # e => SatelliteNameOf(hashdiffsOf(t)[d]) # SatelliteNameOf(hashdiffsOf(t)[e])

\* C15: after exportStandardSatellite, the rows of every accepted hashdiff
\* group, whatever its mode, follow the table's column-list order restricted
\* to the member columns, and the k-th of them carries the column's stored
\* order when that is set and k otherwise.
C15_SatelliteColumnOrder ==
    (ReturnedBy("exportStandardSatellite") /\ DistinctTables(pre)) =>
        \A i \in 1..Len(pre) :
            \A d \in 1..Len(hashdiffsOf(pre[i])) :
                LET t == pre[i]
                    hd == hashdiffsOf(t)[d]
                    mine == SatelliteRowsOf(Rows, t, hd)
                    Member(c) == \E k \in 1..Len(mine) :
                        SatelliteCell(mine[k], "Source_Column_Physical_Name") = c.column
                    members == SelectSeq(t.columns, Member)
                IN (Accepted(t, hd) /\ DistinctHashdiffs(t)) =>
                      /\ Len(mine) = Len(members)
                      /\ \A k \in 1..Len(mine) :
                            /\ SatelliteCell(mine[k], "Source_Column_Physical_Name") =
                                  members[k].column
                            /\ SatelliteCell(mine[k], "Target_Column_Sort_Order") =
                                  String(IF members[k].order # 0 THEN members[k].order
                                         ELSE k)

\* the hashkey names of the non-link groups of table t whose business concept
\* is that of hashdiff group hd
HubKeysOfConcept(t, hd) ==
    {groupsOf(t)[g].hashkeyName : g \in {h \in 1..Len(groupsOf(t)) :
        /\ ~groupsOf(t)[h].isLink
        /\ groupsOf(t)[h].businessConcept = hd.concept
        /\ groupsOf(t)[h].hashkeyName # ""}}

\* C16: after exportStandardSatellite, the rows of a hashdiff group that has a
\* concept and no hashkey carry as parent key the hashkey name of a non-link
\* group of the same table with the same concept; when the table has no such
\* group the hashdiff group has no rows.
C16_LazyHashkey ==
    (ReturnedBy("exportStandardSatellite") /\ DistinctTables(pre)) =>
        \A i \in 1..Len(pre) :
            \A d \in 1..Len(hashdiffsOf(pre[i])) :
                LET t == pre[i]
                    hd == hashdiffsOf(t)[d]
                    mine == SatelliteRowsOf(Rows, t, hd)
                IN (hd.concept # "" /\ hd.hashkey = "" /\ DistinctHashdiffs(t)) =>
                      /\ HubKeysOfConcept(t, hd) = {} => mine = <<>>
                      /\ \A k \in 1..Len(mine) :
                            SatelliteCell(mine[k], "Parent_Primary_Key_Physical_Name")
                                \in HubKeysOfConcept(t, hd)

\* a satellite relation was returned for a table whose satellite took the
\* hashkey of its concept, and a table whose satellite of the same concept
\* found only a link hashkey and has no rows
C16_Witness ==
    /\ ReturnedBy("exportStandardSatellite")
    /\ pre = <<CustomerTable, ShipmentTable>>
    /\ pre[1].hashdiffGroups[1][1].hashkey = ""
    /\ \E k \in 1..Len(Rows) :
          /\ SatelliteCell(Rows[k], "Satellite_Identifier") = "S_customer"
          /\ SatelliteCell(Rows[k], "Parent_Primary_Key_Physical_Name") = "hk_customer_alt_h"
    /\ SatelliteRowsOf(Rows, ShipmentTable, hashdiffsOf(ShipmentTable)[1]) = <<>>

\* the columns named in any business-key group of table t, link or not
GroupColumns(t) ==
    UNION {{OrElse(groupsOf(t)[g].columns, <<>>)[k] :
                k \in 1..Len(OrElse(groupsOf(t)[g].columns, <<>>))} :
           g \in 1..Len(groupsOf(t))}

\* the columns a select_all hashdiff group hd of table t is specified to hold
SelectAllMembers(t, hd) ==
    LET IsRecordSource(c) == c.isRecordSource
        IsLoadDate(c) == c.isLoadDate
        excluded == OrElse(hd.excludedColumns, <<>>)
    IN ({t.columns[c].column : c \in 1..Len(t.columns)}
            \ {excluded[e] : e \in 1..Len(excluded)})
         \ (GroupColumns(t) \cup {FirstFlagged(t, IsRecordSource),
                                  FirstFlagged(t, IsLoadDate)})

\* C17: after exportStandardSatellite, the columns emitted for an accepted
\* select_all hashdiff group are exactly the table's columns that are not in
\* its exclusion list, not named in any business-key group of the table, and
\* neither the record-source nor the load-date column; with no such column
\* the group has no rows.
C17_SelectAllMembers ==
    (ReturnedBy("exportStandardSatellite") /\ DistinctTables(pre)) =>
        \A i \in 1..Len(pre) :
            \A d \in 1..Len(hashdiffsOf(pre[i])) :
                LET t == pre[i]
                    hd == hashdiffsOf(t)[d]
                    mine == SatelliteRowsOf(Rows, t, hd)
                IN (/\ Accepted(t, hd)
                    /\ hd.mode \in {"", "select_all"}
                    /\ DistinctHashdiffs(t)) =>
                      /\ {SatelliteCell(mine[k], "Source_Column_Physical_Name") :
                              k \in 1..Len(mine)} = SelectAllMembers(t, hd)
                      /\ Len(mine) = Cardinality(SelectAllMembers(t, hd))

\* a satellite relation was returned for a table with a column that only a
\* link hashkey names, one satellite with a column left and one with none
C17_Witness ==
    /\ ReturnedBy("exportStandardSatellite")
    /\ pre = <<InvoiceTable>>
    /\ Len(SatelliteRowsOf(Rows, InvoiceTable, hashdiffsOf(InvoiceTable)[1])) = 1
    /\ HasSatelliteRow(Rows, InvoiceTable, hashdiffsOf(InvoiceTable)[1], "paid")
    /\ SatelliteRowsOf(Rows, InvoiceTable, hashdiffsOf(InvoiceTable)[2]) = <<>>

\* how many elements of the sequence list equal x
CountIn(list, x) == Cardinality({k \in 1..Len(list) : list[k] = x})

\* the column names of the rows of a satellite, in order
SatelliteColumnsOf(rows) ==
    [k \in 1..Len(rows) |-> SatelliteCell(rows[k], "Source_Column_Physical_Name")]

\* C18 as stated: after exportStandardSatellite, the column names emitted for
\* an accepted select_explicit hashdiff group are, as a multiset, exactly its
\* inclusion list: one row per listed column and no other.
C18_ExplicitMultiset ==
    (ReturnedBy("exportStandardSatellite") /\ DistinctTables(pre)) =>
        \A i \in 1..Len(pre) :
            \A d \in 1..Len(hashdiffsOf(pre[i])) :
                LET t == pre[i]
                    hd == hashdiffsOf(t)[d]
                    names == SatelliteColumnsOf(SatelliteRowsOf(Rows, t, hd))
                    listed == OrElse(hd.includedColumns, <<>>)
                IN (/\ Accepted(t, hd)
                    /\ hd.mode \notin {"", "select_all"}
                    /\ DistinctHashdiffs(t)) =>
                      /\ Len(names) = Len(listed)
                      /\ \A k \in 1..Len(listed) :
                            CountIn(names, listed[k]) = CountIn(listed, listed[k])

\* C18 amended: the column names emitted for an accepted select_explicit
\* hashdiff group are exactly the names of its inclusion list that are columns
\* of the table, each emitted once, whether or not the column is in a
\* business-key group, is the record-source or load-date column or is in the
\* exclusion list.
C18_ExplicitMembers ==
    (ReturnedBy("exportStandardSatellite") /\ DistinctTables(pre)) =>
        \A i \in 1..Len(pre) :
            \A d \in 1..Len(hashdiffsOf(pre[i])) :
                LET t == pre[i]
                    hd == hashdiffsOf(t)[d]
                    names == SatelliteColumnsOf(SatelliteRowsOf(Rows, t, hd))
                    listed == OrElse(hd.includedColumns, <<>>)
                IN (/\ Accepted(t, hd)
                    /\ hd.mode \notin {"", "select_all"}
                    /\ DistinctHashdiffs(t)) =>
                      /\ {names[k] : k \in 1..Len(names)} =
                            {listed[k] : k \in 1..Len(listed)}
                               \cap {t.columns[c].column : c \in 1..Len(t.columns)}
                      /\ \A k \in 1..Len(names) : CountIn(names, names[k]) = 1

\* a satellite relation was returned for an explicit group that lists a
\* business key, an excluded column, the record-source column, one column
\* twice and a name the table lacks
C18_Witness ==
    /\ ReturnedBy("exportStandardSatellite")
    /\ pre = <<OrderTable>>
    /\ SatelliteColumnsOf(SatelliteRowsOf(Rows, OrderTable, hashdiffsOf(OrderTable)[1]))
          = <<"city", "id", "rsrc">>

\* the table list ts without hashdiff group d of table i
WithoutHashdiff(ts, i, d) ==
    LET hds == hashdiffsOf(ts[i])
    IN [ts EXCEPT ![i].hashdiffGroups =
           Some(SubSeq(hds, 1, d - 1) \o SubSeq(hds, d + 1, Len(hds)))]

\* C19: after exportStandardSatellite, a hashdiff group without business
\* concept has no rows, even with a hashkey and member columns, and the
\* relation is the one returned for the same input without that group.
C19_NoConceptSkipped ==
    (ReturnedBy("exportStandardSatellite") /\ DistinctTables(pre)) =>
        \A i \in 1..Len(pre) :
            \A d \in 1..Len(hashdiffsOf(pre[i])) :
                LET t == pre[i]
                    hd == hashdiffsOf(t)[d]
                IN (hd.concept = "" /\ DistinctHashdiffs(t)) =>
                      /\ SatelliteRowsOf(Rows, t, hd) = <<>>
                      /\ out.data = exportStandardSatellite(WithoutHashdiff(pre, i, d)).data

\* a satellite relation with rows was returned for two tables, one of which has
\* a hashdiff group without concept that has a hashkey and member columns
C19_Witness ==
    /\ ReturnedBy("exportStandardSatellite")
    /\ pre = <<OrderTable, CustomerTable>>
    /\ hashdiffsOf(pre[1])[2].concept = ""
    /\ hashdiffsOf(pre[1])[2].hashkey # ""
    /\ SelectAllMembers(pre[1], hashdiffsOf(pre[1])[2]) # {}
    /\ SatelliteRowsOf(Rows, pre[1], hashdiffsOf(pre[1])[1]) # <<>>
    /\ SatelliteRowsOf(Rows, pre[2], hashdiffsOf(pre[2])[1]) # <<>>

\* the rows mine are what one reference to the group owner (table, group) of
\* ts is specified to give: one row per column of the group, or a single row
\* with blank column fields when the group has no columns, each with the hub
\* identifier of the owning table
ReferencePolicy(mine, ts, owner) ==
    LET A == ts[owner[1]]
        cols == OrElse(groupsOf(A)[owner[2]].columns, <<>>)
        hub == "H_" \o generateHubName(A.table, A.businessConcept)
    IN IF cols = <<>>
       THEN /\ Len(mine) = 1
            /\ LinkCell(mine[1], "Source_Column_Physical_Name") = ""
            /\ LinkCell(mine[1], "Target_column_physical_name") = ""
            /\ LinkCell(mine[1], "Hub_Identifier") = hub
       ELSE /\ Len(mine) = Len(cols)
            /\ \A k \in 1..Len(cols) :
                  /\ LinkCell(mine[k], "Source_Column_Physical_Name") = cols[k]
                  /\ LinkCell(mine[k], "Target_column_physical_name") = cols[k]
                  /\ LinkCell(mine[k], "Hub_Identifier") = hub

\* C20: after exportStandardLink, every referenced hashkey of every link group
\* is settled on its own: no row when no non-link group of any table has the
\* name; otherwise one row with blank column fields and the resolved hub
\* identifier when the matched group has no columns, and one row per column of
\* the matched group when it has.
C20_LinkReferencePolicy ==
    ReturnedBy("exportStandardLink") =>
        \A b \in 1..Len(pre) :
            \A l \in 1..Len(linkGroups(pre[b])) :
                LET group == linkGroups(pre[b])[l]
                    refs == OrElse(group.referencedHashkeys, <<>>)
                IN \A r \in 1..Len(refs) :
                      LET owners == OwnersOf(pre, refs[r])
                          mine == LinkRowsOf(pre[b], linkNameOf(pre[b], group, l - 1), refs[r])
                      IN ReferenceIsIdentifiable(pre, b, l, r) =>
                            IF owners = {} THEN mine = <<>>
                            ELSE \E o \in owners : ReferencePolicy(mine, pre, o)

\* a link relation was returned for a link hashkey whose references are, in
\* order, a hub hashkey of two columns, a name no table has and a hub hashkey
\* without columns: two rows, none, and one row with blank column fields
C20_Witness ==
    /\ ReturnedBy("exportStandardLink")
    /\ pre = <<ProductTable>>
    /\ Len(Rows) = 3
    /\ LinkCell(Rows[2], "Hub_primary_key_physical_name") = "hk_part_h"
    /\ LinkCell(Rows[3], "Hub_primary_key_physical_name") = "hk_product_h"
    /\ LinkCell(Rows[3], "Source_Column_Physical_Name") = ""

\* the groups of table t that are not marked as links, and those that are
HubMarked(t) ==
    LET NotMarked(g) == g.isLink # TRUE
    IN SelectSeq(groupsOf(t), NotMarked)

LinkMarked(t) ==
    LET Marked(g) == g.isLink = TRUE
    IN SelectSeq(groupsOf(t), Marked)

\* the names of the columns a group lists
ColumnsOfGroup(g) ==
    {OrElse(g.columns, <<>>)[k] : k \in 1..Len(OrElse(g.columns, <<>>))}

\* the hashkey under which a hub group of table t is emitted
HubKeyOf(t, g) ==
    IF g.hashkeyName # "" THEN g.hashkeyName
    ELSE "hk_" \o generateHubName(t.table, t.businessConcept)

\* the rows of the link relation that come from table t
LinkRowsFrom(t) ==
    LET Mine(row) == LinkCell(row, "Source_Table_Identifier") = sourceIdentifier(t)
    IN SelectSeq(Rows, Mine)

\* every hub row of table t belongs to one of its groups not marked as a link,
\* they are as many as those groups list columns, and a column listed only by
\* groups marked as links has no hub row
HubSideOfPartition(t) ==
    LET rows == HubRowsOf(t)
        hubs == HubMarked(t)
        links == LinkMarked(t)
    IN /\ \A k \in 1..Len(rows) :
             \E g \in 1..Len(hubs) :
                /\ HubCell(rows[k], "Target_Primary_Key_Physical_Name") = HubKeyOf(t, hubs[g])
                /\ HubCell(rows[k], "Source_Column_Physical_Name") \in ColumnsOfGroup(hubs[g])
       /\ Len(rows) = Len(Flatten([g \in 1..Len(hubs) |-> OrElse(hubs[g].columns, <<>>)]))
       /\ \A l \in 1..Len(links) :
             \A c \in ColumnsOfGroup(links[l]) :
                (\A g \in 1..Len(hubs) : c \notin ColumnsOfGroup(hubs[g]))
                => \A k \in 1..Len(rows) :
                      HubCell(rows[k], "Source_Column_Physical_Name") # c

\* every link row that comes from table t is a reference of one of its groups
\* marked as a link, under that group's link identifier
LinkSideOfPartition(t) ==
    LET rows == LinkRowsFrom(t)
        links == LinkMarked(t)
    IN \A k \in 1..Len(rows) :
          \E l \in 1..Len(links) :
             /\ LinkCell(rows[k], "Link_Identifier")
                   = "L_" \o linkNameOf(t, links[l], l - 1)
             /\ Includes(OrElse(links[l].referencedHashkeys, <<>>),
                         LinkCell(rows[k], "Hub_primary_key_physical_name"))

\* C21: for tables with business-key groups, the hub relation holds rows only
\* of groups not marked as links (one per listed column, none for a column
\* that only a link group lists), and the link relation holds, as link
\* entities, rows only of groups marked as links; no group is in both.
C21_HubLinkPartition ==
    DistinctTables(pre) =>
        /\ ReturnedBy("exportStandardHub") =>
              \A i \in 1..Len(pre) :
                 Len(groupsOf(pre[i])) > 0 => HubSideOfPartition(pre[i])
        /\ ReturnedBy("exportStandardLink") =>
              \A i \in 1..Len(pre) : LinkSideOfPartition(pre[i])

\* a hub relation was returned for a table holding a hub group and a link
\* group that lists a column of its own, which no hub group lists
C21_Witness ==
    /\ ReturnedBy("exportStandardHub")
    /\ pre = <<InvoiceTable>>
    /\ Len(Rows) = 3
    /\ \E l \in 1..Len(LinkMarked(InvoiceTable)) :
          "amount" \in ColumnsOfGroup(LinkMarked(InvoiceTable)[l])


\* the columns of table t that carry the legacy business-key flag, in the
\* order of the column list
FlaggedColumns(t) ==
    LET Flagged(c) == c.isBusinessKey = TRUE
    IN SelectSeq(t.columns, Flagged)

\* C22: after exportStandardHub, a table without business-key groups (no list
\* or an empty one) has exactly one hub row per column flagged isBusinessKey,
\* in column-list order, numbered by the column's stored order when it is not
\* zero and by its 1-based position among the flagged columns otherwise, the
\* first row alone marked primary; without flagged columns it has no hub row.
C22_LegacyFallback ==
    (ReturnedBy("exportStandardHub") /\ DistinctTables(pre)) =>
        \A i \in 1..Len(pre) :
            pre[i].businessKeyGroups \in {None, Some(<<>>)} =>
                LET flagged == FlaggedColumns(pre[i])
                    rows == HubRowsOf(pre[i])
                IN /\ Len(rows) = Len(flagged)
                   /\ \A k \in 1..Len(flagged) :
                        /\ HubCell(rows[k], "Source_Column_Physical_Name") = flagged[k].column
                        /\ HubCell(rows[k], "Business_Key_Physical_Name") = flagged[k].column
                        /\ HubCell(rows[k], "Target_Column_Sort_Order") =
                              String(IF flagged[k].order # 0 THEN flagged[k].order ELSE k)
                        /\ HubCell(rows[k], "Is_Primary_Source") = (IF k = 1 THEN "1" ELSE "0")

\* a hub relation was returned for a table without a list of groups, whose
\* flagged columns are stored at 7 and unnumbered, and a table with an empty
\* list of groups, whose flagged columns are unnumbered and stored at 1
C22_Witness ==
    /\ ReturnedBy("exportStandardHub")
    /\ pre = <<LegacyTable, CountryTable>>
    /\ LegacyTable.businessKeyGroups = None
    /\ CountryTable.businessKeyGroups = Some(<<>>)
    /\ [k \in 1..Len(Rows) |-> HubCell(Rows[k], "Target_Column_Sort_Order")]
          = <<"7", "2", "1", "1">>
    /\ [k \in 1..Len(Rows) |-> HubCell(Rows[k], "Is_Primary_Source")]
          = <<"1", "0", "1", "0">>


\* the ways the flags of a column are rewritten: all cleared, all set, the
\* business-key flag inverted
FlagEdits == {"clear", "set", "invert"}

\* table list ts with the isBusinessKey / businessKeyGroup / isHashkey flags
\* of every column rewritten, and nothing else changed
Reflagged(ts, edit) ==
    LET Col(c) ==
            CASE edit = "clear" ->
                    [c EXCEPT !.isBusinessKey = FALSE, !.businessKeyGroup = "",
                              !.isHashkey = FALSE]
              [] edit = "set" ->
                    [c EXCEPT !.isBusinessKey = TRUE, !.businessKeyGroup = "hk_flagged",
                              !.isHashkey = TRUE]
              [] edit = "invert" ->
                    [c EXCEPT !.isBusinessKey = ~c.isBusinessKey,
                              !.businessKeyGroup = IF c.businessKeyGroup = "" THEN "hk_flagged"
                                                   ELSE "",
                              !.isHashkey = ~c.isHashkey]
    IN [i \in 1..Len(ts) |->
          [ts[i] EXCEPT !.columns = [k \in 1..Len(ts[i].columns) |-> Col(ts[i].columns[k])]]]

\* C23: when every table of the input has at least one business-key group,
\* exportStandardHub returns for the input what it returns for the same
\* input with the per-column isBusinessKey / businessKeyGroup / isHashkey
\* flags rewritten.
C23_FlagsAdvisory ==
    (last = "exportStandardHub" /\ \A i \in 1..Len(pre) : Len(groupsOf(pre[i])) > 0) =>
        \A edit \in FlagEdits : exportStandardHub(Reflagged(pre, edit)) = out

\* a hub relation was returned for a table with hub groups in which a column
\* outside every group is flagged and a column of a group is not
C23_Witness ==
    /\ ReturnedBy("exportStandardHub")
    /\ pre = <<OrderTable>>
    /\ Len(Rows) = 2
    /\ \E c \in 1..Len(OrderTable.columns) :
          /\ OrderTable.columns[c].isBusinessKey
          /\ OrderTable.columns[c].column \notin GroupColumns(OrderTable)
    /\ \E c \in 1..Len(OrderTable.columns) :
          /\ ~OrderTable.columns[c].isBusinessKey
          /\ OrderTable.columns[c].column \in GroupColumns(OrderTable)
    /\ Reflagged(pre, "invert") # pre


\* the hashkey names under which the hub rows of table t are to appear: for
\* each group not marked as a link, in order, its key once per column it lists
ExpectedHubKeys(t) ==
    LET hubs == HubMarked(t)
    IN Flatten([g \in 1..Len(hubs) |->
                  [k \in 1..Len(OrElse(hubs[g].columns, <<>>)) |-> HubKeyOf(t, hubs[g])]])

\* C24: after exportStandardHub, every hub row of a table carries the hub
\* identifier "H_" + hubName and the hub table name hubName made from the
\* table's business concept and name, whatever the concept of its group; the
\* rows of a table with groups carry, group by group, the hashkey name of
\* their group, or "hk_" + hubName when the group has none.
C24_HubIdentity ==
    (ReturnedBy("exportStandardHub") /\ DistinctTables(pre)) =>
        \A i \in 1..Len(pre) :
            LET t == pre[i]
                rows == HubRowsOf(t)
                hubName == generateHubName(t.table, t.businessConcept)
            IN /\ \A k \in 1..Len(rows) :
                    /\ HubCell(rows[k], "Hub_Identifier") = "H_" \o hubName
                    /\ HubCell(rows[k], "Target_Hub_table_physical_name") = hubName
               /\ Len(groupsOf(t)) > 0 =>
                    [k \in 1..Len(rows) |->
                        HubCell(rows[k], "Target_Primary_Key_Physical_Name")]
                    = ExpectedHubKeys(t)

\* a hub relation was returned for a table of concept Order with a group of
\* concept Customer, and for a table whose hub group has no hashkey name
C24_Witness ==
    /\ ReturnedBy("exportStandardHub")
    /\ pre = <<OrderTable, InvoiceTable>>
    /\ \E g \in 1..Len(HubMarked(OrderTable)) :
          HubMarked(OrderTable)[g].businessConcept = "Customer"
    /\ [k \in 1..Len(Rows) |-> HubCell(Rows[k], "Hub_Identifier")]
          = <<"H_order_h", "H_order_h", "H_invoice_h", "H_invoice_h", "H_invoice_h">>
    /\ HubCell(Rows[5], "Target_Primary_Key_Physical_Name") = "hk_invoice_h"


\* the rows exportStandardHub returns on ts for the group of table t emitted
\* under the hashkey name key
HubRowsFor(ts, t, key) ==
    LET hub == exportStandardHub(ts)
        Mine(row) ==
            /\ HubCell(row, "Source_Table_Identifier") = sourceIdentifier(t)
            /\ HubCell(row, "Target_Primary_Key_Physical_Name") = key
    IN IF hub.fault THEN <<>> ELSE SelectSeq(Tail(hub.data), Mine)

\* C25: after exportStandardSatellite, when the resolved hashkey of a hashdiff
\* group is the hashkey name of a non-link group with columns of the same
\* table, every satellite row of the hashdiff group carries as parent
\* identifier the hub identifier, and as parent key the target primary key,
\* of the hub rows exportStandardHub returns for that group on the same input.
C25_SatelliteParentIsHub ==
    (ReturnedBy("exportStandardSatellite") /\ DistinctTables(pre)) =>
        \A i \in 1..Len(pre) :
            \A d \in 1..Len(hashdiffsOf(pre[i])) :
                LET t == pre[i]
                    hd == hashdiffsOf(t)[d]
                    key == resolveHashkey(t, hd)
                    parents == HubRowsFor(pre, t, key)
                    mine == SatelliteRowsOf(Rows, t, hd)
                IN (/\ Accepted(t, hd)
                    /\ \E g \in 1..Len(HubMarked(t)) :
                          /\ HubMarked(t)[g].hashkeyName = key
                          /\ ColumnsOfGroup(HubMarked(t)[g]) # {})
                   => \A k \in 1..Len(mine) : \A h \in 1..Len(parents) :
                         /\ SatelliteCell(mine[k], "Parent_Identifier")
                               = HubCell(parents[h], "Hub_Identifier")
                         /\ SatelliteCell(mine[k], "Parent_Primary_Key_Physical_Name")
                               = HubCell(parents[h], "Target_Primary_Key_Physical_Name")


\* C26: after exportStandardLink, every link row with a non-empty source
\* column has a counterpart among the rows exportStandardHub returns on the
\* same input: a hub row with the same hub identifier, the source column as
\* business key, and the referenced hashkey as target primary key.
C26_LinkRowHasHubRow ==
    ReturnedBy("exportStandardLink") =>
        LET hub == exportStandardHub(pre)
            hubRows == IF hub.fault THEN <<>> ELSE Tail(hub.data)
        IN \A k \in 1..Len(Rows) :
              LinkCell(Rows[k], "Source_Column_Physical_Name") # "" =>
                 \E h \in 1..Len(hubRows) :
                    /\ HubCell(hubRows[h], "Hub_Identifier")
                          = LinkCell(Rows[k], "Hub_Identifier")
                    /\ HubCell(hubRows[h], "Business_Key_Physical_Name")
                          = LinkCell(Rows[k], "Source_Column_Physical_Name")
                    /\ HubCell(hubRows[h], "Target_Primary_Key_Physical_Name")
                          = LinkCell(Rows[k], "Hub_primary_key_physical_name")


\* the stored orders that are set (not zero) are pairwise distinct among the
\* columns of the list cols
SetOrdersDistinct(cols) ==
    \A a, b \in 1..Len(cols) :
        (a # b /\ cols[a].order # 0 /\ cols[b].order # 0) => cols[a].order # cols[b].order

\* no two rows of the list carry the same value in the cell read by Cell
PairwiseDistinct(rows, Cell(_)) ==
    \A a, b \in 1..Len(rows) : a # b => Cell(rows[a]) # Cell(rows[b])

\* the columns of table t named by the rows of a satellite
ColumnsNamedBy(t, rows) ==
    LET Named(c) == \E k \in 1..Len(rows) :
                       SatelliteCell(rows[k], "Source_Column_Physical_Name") = c.column
    IN SelectSeq(t.columns, Named)

\* C27: whenever the stored orders that are set are pairwise distinct among
\* the columns concerned, the sort orders are pairwise distinct within the
\* hub rows of a table without business-key groups (after exportStandardHub)
\* and within the rows of one satellite (after exportStandardSatellite).
C27_SortOrdersDistinct ==
    DistinctTables(pre) =>
        /\ ReturnedBy("exportStandardHub") =>
              \A i \in 1..Len(pre) :
                 (Len(groupsOf(pre[i])) = 0 /\ SetOrdersDistinct(FlaggedColumns(pre[i])))
                 => LET Order(row) == HubCell(row, "Target_Column_Sort_Order")
                    IN PairwiseDistinct(HubRowsOf(pre[i]), Order)
        /\ ReturnedBy("exportStandardSatellite") =>
              \A i \in 1..Len(pre) :
                 DistinctHashdiffs(pre[i]) =>
                    \A d \in 1..Len(hashdiffsOf(pre[i])) :
                       LET mine == SatelliteRowsOf(Rows, pre[i], hashdiffsOf(pre[i])[d])
                           Order(row) == SatelliteCell(row, "Target_Column_Sort_Order")
                       IN SetOrdersDistinct(ColumnsNamedBy(pre[i], mine))
                          => PairwiseDistinct(mine, Order)


\* C28: after exportStandardHub, a table whose list of business-key groups is
\* not empty and holds link groups only has no hub row, whatever legacy
\* isBusinessKey flags its columns carry.
C28_LinkOnlyTableHasNoHub ==
    (ReturnedBy("exportStandardHub") /\ DistinctTables(pre)) =>
        \A i \in 1..Len(pre) :
            (Len(groupsOf(pre[i])) > 0 /\ HubMarked(pre[i]) = <<>>)
            => HubRowsOf(pre[i]) = <<>>

\* a hub relation was returned for a table that has one link group and a
\* flagged column, followed by a table without groups that has hub rows
C28_Witness ==
    /\ ReturnedBy("exportStandardHub")
    /\ pre = <<ShipmentTable, LegacyTable>>
    /\ Len(groupsOf(ShipmentTable)) = 1
    /\ HubMarked(ShipmentTable) = <<>>
    /\ FlaggedColumns(ShipmentTable) # <<>>
    /\ Len(Rows) = 2
    /\ HubRowsOf(LegacyTable) = Rows


\* C29: after any sequence of createOrShow calls and disposals, whenever an
\* editor panel exists, the DuckDB service it queries (the one _loadMetadata
\* reads the posted metadata from) was opened on the panel's current database
\* path.
C29_PanelQueriesCurrentDatabase ==
    currentPanel # None =>
        currentPanel[1].duckDBService = DuckDBService(currentPanel[1].dbPath)

\* the lines of a text
LinesOf(text) ==
    LET breaks == {0, Len(text) + 1} \cup {i \in 1..Len(text) : CharAt(text, i) = "\n"}
    IN {SubSeq(text, a + 1, b - 1) :
           <<a, b>> \in {p \in breaks \X breaks :
                            p[1] < p[2] /\ \A c \in breaks : ~(p[1] < c /\ c < p[2])}}

\* the lines the satellite file holds
SatelliteFileRows ==
    IF files["standard_satellite"] = None THEN {}
    ELSE LinesOf(files["standard_satellite"][1])

\* C30: after an exportCSV message was exported, the standard_satellite file
\* holds the satellite rows of every hashdiff group of the message's tables
\* that has a concept, a resolvable hashkey and at least one member column.
C30_EditorExportsSatellites ==
    (exportRequest # None /\ exportRequest[1].tables # None) =>
        LET ts == exportRequest[1].tables[1]
        IN \A i \in 1..Len(ts) :
              ~satelliteTableThrows(ts[i]) =>
                 \A d \in 1..Len(hashdiffsOf(ts[i])) :
                    LET hd == hashdiffsOf(ts[i])[d]
                        expected == satelliteHashdiffRows(ts[i], hd)
                    IN (Accepted(ts[i], hd) /\ expected # <<>>)
                       => \A k \in 1..Len(expected) :
                             csvRow(expected[k]) \in SatelliteFileRows


====
